---- MODULE Spec2Model ----
(***************************************************************************)
(* Model of the prompt-explorer scan pipeline (src/app/api/scan/route.ts   *)
(* and the libraries it calls).                                            *)
(*                                                                         *)
(* Strings that the code inspects character by character (entry names and  *)
(* paths: join, split("/"), toLowerCase, includes, endsWith,               *)
(* localeCompare) are sequences of one-character strings.                  *)
(***************************************************************************)
EXTENDS Integers, Sequences, FiniteSets, TLC

\* ------------------------------------------------------------------------
\* Bounds of the model
\* ------------------------------------------------------------------------
\* deepest nesting of directories below the root in the walker inputs
MaxNest == 2
\* largest node / file budget handed to the walker on its own
MaxBudget == 3
\* largest depth budget handed to buildFileTree on its own
MaxDepthArg == 2
\* directories of at most this many entries are listed in every order
MaxShuffle == 2

\* ------------------------------------------------------------------------
\* Characters, names and paths
\* ------------------------------------------------------------------------
Upper26 ==
  <<"A","B","C","D","E","F","G","H","I","J","K","L","M",
    "N","O","P","Q","R","S","T","U","V","W","X","Y","Z">>
Lower26 ==
  <<"a","b","c","d","e","f","g","h","i","j","k","l","m",
    "n","o","p","q","r","s","t","u","v","w","x","y","z">>

Digits == <<"0","1","2","3","4","5","6","7","8","9">>
Punctuation == <<"_","-",".","/">>
\* the characters of the names and paths of the model
Chars ==
  {Upper26[k] : k \in 1..26} \cup {Lower26[k] : k \in 1..26}
  \cup {Digits[k] : k \in 1..10} \cup {Punctuation[k] : k \in 1..4}

\* String.prototype.toLowerCase on one character
toLowerTable ==
  [c \in Chars |->
     IF \E k \in 1..26 : Upper26[k] = c
     THEN Lower26[CHOOSE k \in 1..26 : Upper26[k] = c]
     ELSE c]
toLowerChar(c) == toLowerTable[c]

\* String.prototype.toLowerCase
toLowerCase(s) == [k \in 1..Len(s) |-> toLowerChar(s[k])]

\* String.prototype.includes
includes(s, needle) ==
  \E k \in 1..(Len(s) - Len(needle) + 1) :
    SubSeq(s, k, k + Len(needle) - 1) = needle

\* String.prototype.endsWith (Python str.endswith)
endsWith(s, suffix) ==
  /\ Len(s) >= Len(suffix)
  /\ SubSeq(s, Len(s) - Len(suffix) + 1, Len(s)) = suffix

\* path.join(dir, name) for a directory path and an entry name
join(dir, name) == dir \o <<"/">> \o name

\* dirPath.split("/").pop() || dirPath
lastSegment(dirPath) ==
  LET slashes == {k \in 1..Len(dirPath) : dirPath[k] = "/"}
      from == IF slashes = {} THEN 1
              ELSE 1 + (CHOOSE k \in slashes : \A j \in slashes : j <= k)
      seg == SubSeq(dirPath, from, Len(dirPath))
  IN IF seg = <<>> THEN dirPath ELSE seg

S_prisma == <<"p","r","i","s","m","a">>
S_git == <<".","g","i","t">>
S_node_modules == <<"n","o","d","e","_","m","o","d","u","l","e","s">>
S_pycache == <<"_","_","p","y","c","a","c","h","e","_","_">>
S_next == <<".","n","e","x","t">>
S_dotvenv == <<".","v","e","n","v">>
S_venv == <<"v","e","n","v">>
S_tmp_extractor == <<".","t","m","p","-","e","x","t","r","a","c","t","o","r">>
S_script == <<"p","y","t","h","o","n","_","p","r","o","m","p","t","_",
              "e","x","t","r","a","c","t","o","r",".","p","y">>
S_dotpy == <<".","p","y">>

\* the ignore set of listAllFiles
ignore ==
  {S_git, S_node_modules, S_pycache, S_next, S_dotvenv, S_venv,
   S_tmp_extractor, S_prisma}

\* the ignore set of buildFileTree
ignoreNames ==
  {S_git, S_node_modules, S_pycache, S_next, S_dotvenv, S_venv,
   S_tmp_extractor, S_prisma}

\* ------------------------------------------------------------------------
\* String.prototype.localeCompare on names: punctuation before digits
\* before letters, letters compared without case first, and lowercase
\* before uppercase when the names differ in case only.
\* ------------------------------------------------------------------------
CollationOrder == Punctuation \o Digits \o Lower26

primaryWeightTable ==
  [c \in Chars |->
     CHOOSE k \in 1..Len(CollationOrder) : CollationOrder[k] = toLowerTable[c]]
primaryWeight(c) == primaryWeightTable[c]

tertiaryWeight(c) == IF toLowerChar(c) = c THEN 0 ELSE 1

\* compares two sequences of weights: first difference, then length
RECURSIVE compareWeights(_, _, _)
compareWeights(a, b, k) ==
  IF k > Len(a) /\ k > Len(b) THEN 0
  ELSE IF k > Len(a) THEN -1
  ELSE IF k > Len(b) THEN 1
  ELSE IF a[k] < b[k] THEN -1
  ELSE IF a[k] > b[k] THEN 1
  ELSE compareWeights(a, b, k + 1)

localeCompare(a, b) ==
  LET p == compareWeights([k \in 1..Len(a) |-> primaryWeight(a[k])],
                          [k \in 1..Len(b) |-> primaryWeight(b[k])], 1)
  IN IF p # 0 THEN p
     ELSE compareWeights([k \in 1..Len(a) |-> tertiaryWeight(a[k])],
                         [k \in 1..Len(b) |-> tertiaryWeight(b[k])], 1)

\* entries.sort((a, b) => a.name.localeCompare(b.name)); the sort is stable
RECURSIVE insertSorted(_, _)
insertSorted(sorted, e) ==
  IF sorted = <<>> THEN <<e>>
  ELSE IF localeCompare(e.name, sorted[Len(sorted)].name) >= 0
       THEN Append(sorted, e)
       ELSE Append(insertSorted(SubSeq(sorted, 1, Len(sorted) - 1), e),
                   sorted[Len(sorted)])

RECURSIVE sortEntries(_)
sortEntries(entries) ==
  IF entries = <<>> THEN <<>>
  ELSE insertSorted(sortEntries(SubSeq(entries, 1, Len(entries) - 1)),
                    entries[Len(entries)])

\* ------------------------------------------------------------------------
\* The filesystem.  A directory entry is a record; a directory holds its
\* entries in `children`.  The order of `children` carries no meaning: the
\* operating system lists a directory in an order of its own (readdir).
\* ------------------------------------------------------------------------
FileNode(name, size, readable, lines, py) ==
  [name |-> name, type |-> "file", readable |-> readable, size |-> size,
   lines |-> lines, py |-> py, children |-> <<>>]

DirNode(name, readable, children) ==
  [name |-> name, type |-> "dir", readable |-> readable, size |-> 0,
   lines |-> <<>>, py |-> <<>>, children |-> children]

\* a socket, a FIFO or a symbolic link: neither isDirectory() nor isFile()
OtherNode(name) ==
  [name |-> name, type |-> "other", readable |-> TRUE, size |-> 0,
   lines |-> <<>>, py |-> <<>>, children |-> <<>>]

\* the orders in which fs.readdir / os.walk may list the entries of one
\* directory: any order (all of them up to MaxShuffle entries, the two
\* opposite ones beyond)
readdirOrders(entries) ==
  LET n == Len(entries) IN
  IF n <= MaxShuffle
  THEN {[k \in 1..n |-> entries[p[k]]] : p \in Permutations(1..n)}
  ELSE {entries, [k \in 1..n |-> entries[n + 1 - k]]}

\* the listings of a whole tree: every directory listed in one of its orders
RECURSIVE fsListings(_), fsListingsOfEach(_)
fsListings(node) ==
  IF node.type # "dir" THEN {node}
  ELSE {[node EXCEPT !.children = o] :
          o \in UNION {readdirOrders(cs) : cs \in fsListingsOfEach(node.children)}}
fsListingsOfEach(entries) ==
  IF entries = <<>> THEN {<<>>}
  ELSE {<<h>> \o t : h \in fsListings(Head(entries)),
                     t \in fsListingsOfEach(Tail(entries))}

\* ------------------------------------------------------------------------
\* listAllFiles (route.ts 41-59).  `node` is the directory found at path
\* `dir`, listed in the order of `node.children`.  The result is the list
\* `out`, or thrown when a readdir failed (the rejection leaves every
\* enclosing walk).
\* ------------------------------------------------------------------------
\* the check of route.ts 47 written with > instead of >=
listBudgetSpent_offByOne(out, maxFiles) == Len(out) > maxFiles

\* route.ts 47: if (out.length >= maxFiles) return;
listBudgetSpent(out, maxFiles) == Len(out) >= maxFiles

\* walk(dir) and its loop over the entries.  The loop carries `out`, whether
\* a readdir below has thrown, and whether this walk has returned early.
RECURSIVE listAllFiles_walk(_, _, _, _), listAllFiles_entry(_, _, _, _)
RECURSIVE listAllFiles_entries(_, _, _, _, _)
listAllFiles_walk(node, dir, out, maxFiles) ==
  IF ~node.readable
  THEN [thrown |-> TRUE, returned |-> FALSE, out |-> out]
  ELSE [listAllFiles_entries(node.children, 1, dir,
          [thrown |-> FALSE, returned |-> FALSE, out |-> out], maxFiles)
        EXCEPT !.returned = FALSE]
\* one iteration of the loop (route.ts 47-54)
listAllFiles_entry(entry, dir, acc, maxFiles) ==
  LET p == join(dir, entry.name) IN
  IF listBudgetSpent(acc.out, maxFiles) THEN [acc EXCEPT !.returned = TRUE]
  ELSE IF entry.name \in ignore THEN acc
  ELSE IF entry.type = "dir" THEN listAllFiles_walk(entry, p, acc.out, maxFiles)
  ELSE IF entry.type = "file" THEN [acc EXCEPT !.out = Append(@, p)]
  ELSE acc
listAllFiles_entries(entries, i, dir, acc, maxFiles) ==
  IF i > Len(entries) \/ acc.thrown \/ acc.returned THEN acc
  ELSE listAllFiles_entries(entries, i + 1, dir,
         listAllFiles_entry(entries[i], dir, acc, maxFiles), maxFiles)

listAllFiles(node, root, maxFiles) ==
  listAllFiles_walk(node, root, <<>>, maxFiles)

\* ------------------------------------------------------------------------
\* buildFileTree (route.ts 68-101).  walk returns the node together with
\* the running nodeCount, which the code keeps in a closure variable.
\* ------------------------------------------------------------------------
\* route.ts 76 and 85: nodeCount >= maxNodes
treeBudgetSpent(nodeCount, maxNodes) == nodeCount >= maxNodes

\* walk(dirPath, depth) and its loop over the sorted entries.  The loop
\* carries the node under construction, nodeCount, and whether it has left
\* the loop (break).
RECURSIVE buildFileTree_walk(_, _, _, _, _, _)
RECURSIVE buildFileTree_entry(_, _, _, _, _, _)
RECURSIVE buildFileTree_entries(_, _, _, _, _, _, _)
buildFileTree_walk(fsNode, dirPath, depth, nodeCount, maxDepth, maxNodes) ==
  LET node == [name |-> lastSegment(dirPath), path |-> dirPath,
               type |-> "dir", children |-> <<>>]
      acc == [node |-> node, nodeCount |-> nodeCount, broke |-> FALSE]
  IN IF depth > maxDepth \/ treeBudgetSpent(nodeCount, maxNodes) THEN acc
     ELSE IF ~fsNode.readable THEN acc
     ELSE buildFileTree_entries(sortEntries(fsNode.children), 1, acc, dirPath,
                                depth, maxDepth, maxNodes)
\* one iteration of the loop (route.ts 85-95); a directory is counted after
\* its subtree was built (route.ts 90-91)
buildFileTree_entry(entry, acc, dirPath, depth, maxDepth, maxNodes) ==
  LET childPath == join(dirPath, entry.name) IN
  IF treeBudgetSpent(acc.nodeCount, maxNodes) THEN [acc EXCEPT !.broke = TRUE]
  ELSE IF entry.name \in ignoreNames THEN acc
  ELSE IF includes(toLowerCase(childPath), S_prisma) THEN acc
  ELSE IF entry.type = "dir"
    THEN LET r == buildFileTree_walk(entry, childPath, depth + 1,
                                     acc.nodeCount, maxDepth, maxNodes)
         IN [node |-> [acc.node EXCEPT !.children = Append(@, r.node)],
             nodeCount |-> r.nodeCount + 1, broke |-> FALSE]
  ELSE IF entry.type = "file"
    THEN [node |-> [acc.node EXCEPT !.children =
                      Append(@, [name |-> entry.name, path |-> childPath,
                                 type |-> "file"])],
          nodeCount |-> acc.nodeCount + 1, broke |-> FALSE]
  ELSE acc
buildFileTree_entries(entries, i, acc, dirPath, depth, maxDepth, maxNodes) ==
  IF i > Len(entries) \/ acc.broke THEN acc
  ELSE buildFileTree_entries(entries, i + 1,
         buildFileTree_entry(entries[i], acc, dirPath, depth, maxDepth, maxNodes),
         dirPath, depth, maxDepth, maxNodes)

buildFileTree(fsNode, root, maxDepth, maxNodes) ==
  buildFileTree_walk(fsNode, root, 1, 0, maxDepth, maxNodes).node

\* the nodes of a tree below its root
RECURSIVE countNodes(_), countNodesOfEach(_)
countNodes(tree) ==
  IF tree.type = "dir" THEN countNodesOfEach(tree.children) ELSE 0
countNodesOfEach(kids) ==
  IF kids = <<>> THEN 0
  ELSE 1 + countNodes(Head(kids)) + countNodesOfEach(Tail(kids))

\* ------------------------------------------------------------------------
\* File contents.  A text is a sequence of lines and a line a sequence of
\* lexemes; the text of a line is its lexemes separated by single spaces.
\* The secret patterns are matched on the characters of the line, the
\* prompt patterns on its lexemes.
\* ------------------------------------------------------------------------
NL == "\n"
\* the grave accent that delimits a template literal (a string of this
\* notation cannot hold the character itself)
Backtick == "<grave>"

\* the lexemes of a run of lines as one string: single spaces within a
\* line, a line feed between lines
RECURSIVE joinLexemes(_)
joinLexemes(toks) ==
  IF toks = <<>> THEN ""
  ELSE IF Len(toks) = 1 THEN toks[1]
  ELSE IF toks[1] = NL \/ toks[2] = NL THEN toks[1] \o joinLexemes(Tail(toks))
  ELSE toks[1] \o " " \o joinLexemes(Tail(toks))

least(S) == CHOOSE i \in S : \A j \in S : i <= j
greatest(S) == CHOOSE i \in S : \A j \in S : i >= j

\* --- secretsScan.ts ----------------------------------------------------------
\* the character of a string at position i, from 1; "" beyond its ends
charAt(str, i) == IF i >= 1 /\ i <= Len(str) THEN SubSeq(str, i, i) ELSE ""

RECURSIVE lowerString(_)
lowerString(str) ==
  IF Len(str) = 0 THEN ""
  ELSE (LET c == SubSeq(str, 1, 1) IN IF c \in Chars THEN toLowerChar(c) ELSE c)
       \o lowerString(SubSeq(str, 2, Len(str)))

\* the word stands in str at position i
wordAt(str, word, i) ==
  /\ i >= 1 /\ i + Len(word) - 1 <= Len(str)
  /\ SubSeq(str, i, i + Len(word) - 1) = word
\* the same under the i flag
wordAtAnyCase(str, word, i) ==
  /\ i >= 1 /\ i + Len(word) - 1 <= Len(str)
  /\ lowerString(SubSeq(str, i, i + Len(word) - 1)) = word

\* [A-Za-z0-9]
Alnum ==
  {Upper26[k] : k \in 1..26} \cup {Lower26[k] : k \in 1..26}
  \cup {Digits[k] : k \in 1..10}
\* [A-Za-z0-9\-_\.]
BearerChars == Alnum \cup {"-", "_", "."}
\* [\w.-]
HostChars == Alnum \cup {"_", ".", "-"}
\* \s within a line
White == {" ", "\t"}
\* the characters [^\s"'] leaves out
UrlTailStops == White \cup {"\"", "'"}
\* (?:token|key|secret), in the order of the alternation
SecretWords == <<"token", "key", "secret">>

\* the position after the longest run, from i, of characters of the class
runEnd(str, i, class) ==
  least({j \in i..(Len(str) + 1) : charAt(str, j) \notin class})
\* the position after the longest run, from i, of characters outside stops
runEndOutside(str, i, stops) ==
  least({j \in i..(Len(str) + 1) : j = Len(str) + 1 \/ charAt(str, j) \in stops})

\* Each pattern at position i of str: the position after its match there,
\* 0 when it does not match there.
\* /sk-[A-Za-z0-9]{20,}/g
matchesOpenaiKey(str, i) ==
  IF ~wordAt(str, "sk-", i) THEN 0
  ELSE LET e == runEnd(str, i + 3, Alnum) IN
       IF e - (i + 3) >= 20 THEN e ELSE 0
\* /Bearer\s+[A-Za-z0-9\-_\.]+/g
matchesBearerToken(str, i) ==
  IF ~wordAt(str, "Bearer", i) THEN 0
  ELSE LET w == runEnd(str, i + 6, White)
           e == runEnd(str, w, BearerChars)
       IN IF w > i + 6 /\ e > w THEN e ELSE 0
\* /https?:\/\/[\w.-]+\.[\w.-]+\/.+\/(?:token|key|secret)[^\s"']*/gi
\* the two host parts end where the run of host characters ends, at a "/";
\* the greedy .+ reaches the last "/" that a secret word follows
matchesUrlPrivate(str, i) ==
  LET p == IF charAt(str, i) \notin {"h", "H"} THEN 0
           ELSE IF wordAtAnyCase(str, "https://", i) THEN i + 8
           ELSE IF wordAtAnyCase(str, "http://", i) THEN i + 7
           ELSE 0
  IN IF p = 0 THEN 0
     ELSE
       LET q == runEnd(str, p, HostChars)
           dots == {d \in (p + 1)..(q - 2) : charAt(str, d) = "."}
           slashes == {t \in (q + 2)..Len(str) :
                         /\ charAt(str, t) = "/"
                         /\ \E w \in 1..Len(SecretWords) :
                              wordAtAnyCase(str, SecretWords[w], t + 1)}
       IN IF charAt(str, q) # "/" \/ dots = {} \/ slashes = {} THEN 0
          ELSE LET t == greatest(slashes)
                   w == least({w \in 1..Len(SecretWords) :
                                 wordAtAnyCase(str, SecretWords[w], t + 1)})
               IN runEndOutside(str, t + 1 + Len(SecretWords[w]), UrlTailStops)

\* the table without its last entry
patterns_withoutUrl == <<"openai_key", "bearer_token">>

\* secretsScan.ts 8-12, in declaration order
patterns == <<"openai_key", "bearer_token", "url_private">>

patternMatches(name, str, i) ==
  CASE name = "openai_key" -> matchesOpenaiKey(str, i)
    [] name = "bearer_token" -> matchesBearerToken(str, i)
    [] name = "url_private" -> matchesUrlPrivate(str, i)

\* the matches of one pattern on one line, left to right, each search
\* starting at lastIndex (the exec loop, secretsScan.ts 20-24)
RECURSIVE execAll(_, _, _, _, _)
execAll(name, lineText, lastIndex, filePath, lineNo) ==
  LET starts == {i \in lastIndex..Len(lineText) :
                   patternMatches(name, lineText, i) # 0}
  IN IF starts = {} THEN <<>>
     ELSE LET i == least(starts)
              e == patternMatches(name, lineText, i)
          IN <<[match |-> SubSeq(lineText, i, e - 1), filePath |-> filePath,
                line |-> lineNo]>>
             \o execAll(name, lineText, e, filePath, lineNo)

RECURSIVE scanLineForSecrets(_, _, _, _)
scanLineForSecrets(lineText, p, filePath, lineNo) ==
  IF p > Len(patterns) THEN <<>>
  ELSE execAll(patterns[p], lineText, 1, filePath, lineNo)
       \o scanLineForSecrets(lineText, p + 1, filePath, lineNo)

\* the loop over the lines reporting the index i of the loop (from 0)
\* instead of i + 1
RECURSIVE scanTextForSecrets_zeroBased(_, _, _)
scanTextForSecrets_zeroBased(lines, i, filePath) ==
  IF i > Len(lines) THEN <<>>
  ELSE scanLineForSecrets(joinLexemes(lines[i]), 1, filePath, i - 1)
       \o scanTextForSecrets_zeroBased(lines, i + 1, filePath)

\* scanTextForSecrets (secretsScan.ts 14-28)
RECURSIVE scanTextForSecrets_from(_, _, _)
scanTextForSecrets_from(lines, i, filePath) ==
  IF i > Len(lines) THEN <<>>
  ELSE scanLineForSecrets(joinLexemes(lines[i]), 1, filePath, i)
       \o scanTextForSecrets_from(lines, i + 1, filePath)

scanTextForSecrets(text, filePath) == scanTextForSecrets_from(text, 1, filePath)

\* --- promptKeywordScan.ts ---------------------------------------------------
\* the text as one stream of lexemes, lines separated by NL
RECURSIVE lexemeStream(_)
lexemeStream(lines) ==
  IF lines = <<>> THEN <<>>
  ELSE IF Len(lines) = 1 THEN lines[1]
  ELSE lines[1] \o <<NL>> \o lexemeStream(Tail(lines))

\* String.prototype.slice(0, n) on a string
sliceString(str, n) == SubSeq(str, 1, IF Len(str) < n THEN Len(str) ELSE n)

\* the count started at 0 instead of 1
lineNumberAtIndex_zeroBased(stream, idx) ==
  IF idx <= 1 THEN 0
  ELSE Cardinality({k \in 1..(idx - 1) : stream[k] = NL})

\* lineNumberAtIndex (promptKeywordScan.ts 53-60): 1 + the line feeds before idx
lineNumberAtIndex(stream, idx) ==
  IF idx <= 1 THEN 1
  ELSE 1 + Cardinality({k \in 1..(idx - 1) : stream[k] = NL})

\* The block patterns (promptKeywordScan.ts 63-76) as sequences of parts:
\*   lit   one lexeme of a set, after optional white space (\s*)
\*   lazy  [\s\S]*? ; the part that is the pattern's group is the capture
\*   open  (["']{3}), after optional white space
\*   close \1
Lit(set) == [kind |-> "lit", set |-> set, capture |-> FALSE]
Lazy(capture) == [kind |-> "lazy", set |-> {}, capture |-> capture]
Open3 == [kind |-> "open", set |-> {"\"\"\"", "'''"}, capture |-> FALSE]
Close3 == [kind |-> "close", set |-> {}, capture |-> FALSE]

B_system == {"system"}
B_role == {"role", "Role", "ROLE"}
B_content == {"content", "Content", "CONTENT"}
B_quotedSystem == {"\"system\"", "'system'", "\"System\"", "'System'"}

blockPatterns ==
  <<[label |-> "js_ts_system_template_literal",
     parts |-> <<Lit(B_system), Lit({":"}), Lit({Backtick}), Lazy(TRUE), Lit({Backtick})>>],
    [label |-> "js_ts_role_system_then_content_template",
     parts |-> <<Lit(B_role), Lit({":"}), Lit(B_quotedSystem), Lazy(FALSE),
                 Lit(B_content), Lit({":"}), Lit({Backtick}), Lazy(TRUE), Lit({Backtick})>>],
    [label |-> "js_ts_content_template_then_role_system",
     parts |-> <<Lit(B_content), Lit({":"}), Lit({Backtick}), Lazy(TRUE), Lit({Backtick}),
                 Lazy(FALSE), Lit(B_role), Lit({":"}), Lit(B_quotedSystem)>>],
    [label |-> "py_system_triple_quoted",
     parts |-> <<Lit(B_system), Lit({":", "="}), Open3, Lazy(TRUE), Close3>>],
    [label |-> "py_role_system_triple_content",
     parts |-> <<Lit(B_role), Lit({"="}), Lit(B_quotedSystem), Lazy(FALSE),
                 Lit(B_content), Lit({"="}), Open3, Lazy(TRUE), Close3>>],
    [label |-> "py_content_triple_then_role_system",
     parts |-> <<Lit(B_content), Lit({"="}), Open3, Lazy(TRUE), Close3,
                 Lazy(FALSE), Lit(B_role), Lit({"="}), Lit(B_quotedSystem)>>]>>

NoMatch == [ok |-> FALSE, end |-> 0, from |-> 0, to |-> 0]

RECURSIVE skipWhite(_, _)
skipWhite(stream, pos) ==
  IF pos <= Len(stream) /\ stream[pos] = NL THEN skipWhite(stream, pos + 1)
  ELSE pos

\* the match of parts[k..] at position pos: where it ends and what the
\* group captured; a lazy part takes the fewest lexemes that let the rest
\* of the pattern match
RECURSIVE matchParts(_, _, _, _, _)
matchParts(stream, pos, parts, k, quote) ==
  IF k > Len(parts) THEN [ok |-> TRUE, end |-> pos, from |-> 0, to |-> 0]
  ELSE
    LET part == parts[k]
        p == IF k > 1 /\ part.kind \in {"lit", "open"}
             THEN skipWhite(stream, pos) ELSE pos
    IN CASE part.kind = "lit" ->
              IF p <= Len(stream) /\ stream[p] \in part.set
              THEN matchParts(stream, p + 1, parts, k + 1, quote)
              ELSE NoMatch
         [] part.kind = "open" ->
              IF p <= Len(stream) /\ stream[p] \in part.set
              THEN matchParts(stream, p + 1, parts, k + 1, stream[p])
              ELSE NoMatch
         [] part.kind = "close" ->
              IF p <= Len(stream) /\ stream[p] = quote
              THEN matchParts(stream, p + 1, parts, k + 1, quote)
              ELSE NoMatch
         [] part.kind = "lazy" ->
              LET fits == {n \in 0..(Len(stream) + 1 - pos) :
                             matchParts(stream, pos + n, parts, k + 1, quote).ok}
              IN IF fits = {} THEN NoMatch
                 ELSE LET n == least(fits)
                          r == matchParts(stream, pos + n, parts, k + 1, quote)
                      IN IF part.capture
                         THEN [r EXCEPT !.from = pos, !.to = pos + n - 1]
                         ELSE r

\* regex.exec(text) from lastIndex: the leftmost match, its start in `index`
execBlock(stream, parts, lastIndex) ==
  LET starts == {i \in lastIndex..Len(stream) :
                   matchParts(stream, i, parts, 1, "").ok}
  IN IF starts = {} THEN [m |-> NoMatch, index |-> 0]
     ELSE [m |-> matchParts(stream, least(starts), parts, 1, ""),
           index |-> least(starts)]

\* the while loop over the matches of one block pattern
\* (promptKeywordScan.ts 81-91); acc carries hits and seen
RECURSIVE blockMatches(_, _, _, _, _)
blockMatches(stream, pattern, lastIndex, filePath, acc) ==
  LET e == execBlock(stream, pattern.parts, lastIndex) IN
  IF ~e.m.ok THEN acc
  ELSE
    LET content == joinLexemes(SubSeq(stream, e.m.from, e.m.to))
        line == lineNumberAtIndex(stream, e.index)
        key == <<pattern.label, line, sliceString(content, 50)>>
    IN blockMatches(stream, pattern, e.m.end, filePath,
         IF key \in acc.seen THEN acc
         ELSE [hits |-> Append(acc.hits,
                          [filePath |-> filePath, line |-> line,
                           matchLabel |-> pattern.label, snippet |-> content]),
               seen |-> acc.seen \cup {key}])

\* the for loop over the block patterns (promptKeywordScan.ts 80-92)
RECURSIVE blockExtractors(_, _, _, _)
blockExtractors(stream, k, filePath, acc) ==
  IF k > Len(blockPatterns) THEN acc
  ELSE blockExtractors(stream, k + 1, filePath,
         blockMatches(stream, blockPatterns[k], 1, filePath, acc))

\* --- the line heuristics -----------------------------------------------------
hasLexeme(lineText, toks) == \E k \in 1..Len(lineText) : lineText[k] \in toks
hasPair(lineText, first, second) ==
  \E k \in 1..(Len(lineText) - 1) :
    lineText[k] \in first /\ lineText[k + 1] \in second

\* lexemes on which /\brole\b/i, /\bsystem\b/i, ... match
W_role == {"role", "Role", "ROLE"}
W_system == {"system", "System", "\"system\"", "'system'", "system-prompt"}
W_systemPrompt == {"system_prompt", "system-prompt", "systemPrompt"}
W_systemMessage == {"systemMessage", "systemmessage"}
W_message == {"message", "messages"}
W_assistant == {"assistant"}
W_prompt == {"prompt", "system-prompt"}
W_variants == {"initialSystemPrompt", "baseSystemPrompt", "systemInstructions",
               "systemSpec"}

\* promptKeywordScan.ts 14-47, in declaration order
keywordLabels ==
  <<"role_system", "system_prompt_identifier", "system_message_identifier",
    "messages_role_system_inline", "system_directive_you_are",
    "generic_prompt_with_system", "common_identifier_variants">>

keywordTest(label, lineText) ==
  CASE label = "role_system" ->
         hasLexeme(lineText, W_role) /\ hasLexeme(lineText, W_system)
    [] label = "system_prompt_identifier" -> hasLexeme(lineText, W_systemPrompt)
    [] label = "system_message_identifier" ->
         \/ hasPair(lineText, {"system", "System"}, {"message"})
         \/ hasLexeme(lineText, W_systemMessage)
    [] label = "messages_role_system_inline" ->
         /\ hasLexeme(lineText, W_message)
         /\ hasLexeme(lineText, W_role)
         /\ hasLexeme(lineText, W_system)
    [] label = "system_directive_you_are" ->
         /\ hasPair(lineText, {"you", "You"}, {"are"})
         /\ hasLexeme(lineText, W_system \cup W_assistant)
    [] label = "generic_prompt_with_system" ->
         hasLexeme(lineText, W_prompt) /\ hasLexeme(lineText, W_system)
    [] label = "common_identifier_variants" -> hasLexeme(lineText, W_variants)

\* normalizeWhitespace([prev, raw, next].filter(Boolean).join(" \n ")):
\* the lexemes of the three lines, single-spaced
lineSnippet(lines, i) ==
  joinLexemes((IF i > 1 THEN lines[i - 1] ELSE <<>>) \o lines[i]
              \o (IF i + 1 <= Len(lines) THEN lines[i + 1] ELSE <<>>))

\* the labels whose test holds on line i, in declaration order
\* (promptKeywordScan.ts 98-99)
matchingLabels(lines, i) ==
  SelectSeq(keywordLabels, LAMBDA label : keywordTest(label, lines[i]))

\* the loop over the matchers without its break: every label that holds
\* is emitted
RECURSIVE lineLabels_noBreak(_, _, _, _, _, _)
lineLabels_noBreak(labels, k, lines, i, filePath, acc) ==
  IF k > Len(labels) THEN acc
  ELSE LET snippet == lineSnippet(lines, i)
           key == <<labels[k], i, sliceString(snippet, 50)>>
       IN lineLabels_noBreak(labels, k + 1, lines, i, filePath,
            IF key \in acc.seen THEN acc
            ELSE [hits |-> Append(acc.hits,
                             [filePath |-> filePath, line |-> i,
                              matchLabel |-> labels[k], snippet |-> snippet]),
                  seen |-> acc.seen \cup {key}])

\* the body of the loop over the matchers for line i (promptKeywordScan.ts
\* 98-109): a label whose key was seen is passed over, the first other
\* one is emitted and ends the loop
RECURSIVE lineLabels(_, _, _, _, _, _)
lineLabels(labels, k, lines, i, filePath, acc) ==
  IF k > Len(labels) THEN acc
  ELSE LET snippet == lineSnippet(lines, i)
           key == <<labels[k], i, sliceString(snippet, 50)>>
       IN IF key \in acc.seen
          THEN lineLabels(labels, k + 1, lines, i, filePath, acc)
          ELSE [hits |-> Append(acc.hits,
                           [filePath |-> filePath, line |-> i,
                            matchLabel |-> labels[k], snippet |-> snippet]),
                seen |-> acc.seen \cup {key}]

\* the loop over the lines (promptKeywordScan.ts 95-110)
RECURSIVE lineHeuristics(_, _, _, _)
lineHeuristics(lines, i, filePath, acc) ==
  IF i > Len(lines) THEN acc
  ELSE lineHeuristics(lines, i + 1, filePath,
         lineLabels(matchingLabels(lines, i), 1, lines, i, filePath, acc))

\* scanTextForPromptKeywords (promptKeywordScan.ts 49-113)
scanTextForPromptKeywords(text, filePath) ==
  lineHeuristics(text, 1, filePath,
    blockExtractors(lexemeStream(text), 1, filePath,
                    [hits |-> <<>>, seen |-> {}])).hits

\* ------------------------------------------------------------------------
\* The scan pipeline: operators
\* ------------------------------------------------------------------------
\* the directory every modelled request names (body.localPath)
targetDir == <<"/","r">>

\* Array.prototype.slice(0, n)
slice(s, n) == SubSeq(s, 1, IF Len(s) < n THEN Len(s) ELSE n)

\* the entry found at `path` (fs.stat / fs.readFile); node is the entry at dir
RECURSIVE fsLookup(_, _, _)
fsLookup(node, dir, path) ==
  IF dir = path THEN node
  ELSE LET c == CHOOSE c \in {node.children[k] : k \in 1..Len(node.children)} :
                  LET cp == join(dir, c.name) IN
                  \/ cp = path
                  \/ /\ Len(path) > Len(cp)
                     /\ SubSeq(path, 1, Len(cp) + 1) = cp \o <<"/">>
       IN fsLookup(c, join(dir, c.name), path)

\* --- pythonExtractor.ts ---------------------------------------------------
\* the script written by ensurePythonScript (pythonExtractor.ts 15-166):
\* it holds no call that PromptVisitor recognizes
scriptFile ==
  FileNode(S_script, 4096, TRUE,
           <<<<"role">>, <<"system", "system_prompt">>>>, <<>>)

hasEntry(node, name) == \E k \in 1..Len(node.children) : node.children[k].name = name

\* fs.mkdir(tempDir, {recursive: true}) (pythonExtractor.ts 167)
mkdirTempDir(root) ==
  IF hasEntry(root, S_tmp_extractor) THEN root
  ELSE [root EXCEPT !.children = Append(@, DirNode(S_tmp_extractor, TRUE, <<>>))]

\* fs.writeFile(scriptPath, script) (pythonExtractor.ts 168)
writeScript(root) ==
  [root EXCEPT !.children =
     [k \in 1..Len(@) |->
        IF @[k].name = S_tmp_extractor
        THEN [@[k] EXCEPT !.children = <<scriptFile>>]
        ELSE @[k]]]

\* --- pythonExtractor.ts 22-133: PromptVisitor ---------------------------------
\* A Python source file is its syntax tree, a sequence of nodes of one shape:
\*   Constant      str says whether the value is a string, value holds it
\*   JoinedStr     items: Constant parts and FormattedValue parts
\*   FormattedValue, Name, SyntaxError
\*   Dict          keys and items (the values), position by position
\*   List          items: the elements
\*   Call          func: the id of the Name the attribute chain starts from
\*                 ("" when it starts from another expression) and the
\*                 attributes in source order; items: the positional
\*                 arguments; keywords: [arg, value], arg "" for **mapping
\*   FunctionDef   value: the name, items: the body
Node(kind) ==
  [kind |-> kind, str |-> FALSE, value |-> "", items |-> <<>>, keys |-> <<>>,
   func |-> [id |-> "", attrs |-> <<>>], keywords |-> <<>>, lineno |-> 0]
Str(v) == [Node("Constant") EXCEPT !.str = TRUE, !.value = v]
Num == Node("Constant")
Name == Node("Name")
FormattedValue == Node("FormattedValue")
JoinedStr(parts) == [Node("JoinedStr") EXCEPT !.items = parts]
Dict(keys, values) == [Node("Dict") EXCEPT !.keys = keys, !.items = values]
List(elts) == [Node("List") EXCEPT !.items = elts]
Call(id, attrs, args, keywords, lineno) ==
  [Node("Call") EXCEPT !.func = [id |-> id, attrs |-> attrs], !.items = args,
                       !.keywords = keywords, !.lineno = lineno]
FunctionDef(name, body) == [Node("FunctionDef") EXCEPT !.value = name, !.items = body]
Keyword(arg, value) == [arg |-> arg, value |-> value]

\* Python's None in the JSON the script prints
None == "null"

LLM_CALLEE_NAMES ==
  {<<"openai", "ChatCompletion", "create">>,
   <<"openai", "chat", "completions", "create">>,
   <<"client", "chat", "completions", "create">>,
   <<"anthropic", "messages", "create">>,
   <<"llm", "invoke">>}

\* _callee_segments (44-52)
callee_segments(func) ==
  (IF func.id # "" THEN <<func.id>> ELSE <<>>) \o func.attrs

\* callee[-len(s):] == s for some s no longer than callee (74)
isLlmCallee(callee) ==
  \E s \in LLM_CALLEE_NAMES :
    /\ Len(callee) >= Len(s)
    /\ SubSeq(callee, Len(callee) - Len(s) + 1, Len(callee)) = s

\* ".".join(callee)
RECURSIVE dotJoin(_)
dotJoin(segs) ==
  IF segs = <<>> THEN ""
  ELSE IF Len(segs) = 1 THEN segs[1]
  ELSE segs[1] \o "." \o dotJoin(Tail(segs))

\* "".join(parts) over the string constants of a JoinedStr (58-62)
RECURSIVE joinParts(_)
joinParts(parts) ==
  IF parts = <<>> THEN ""
  ELSE (IF parts[1].kind = "Constant" /\ parts[1].str THEN parts[1].value ELSE "")
       \o joinParts(Tail(parts))

\* _extract_string (54-63); None and "" are both falsy where it is used
extract_string(node) ==
  IF node.kind = "Constant" /\ node.str THEN node.value
  ELSE IF node.kind = "JoinedStr" THEN joinParts(node.items)
  ELSE None
truthy(text) == text # None /\ text # ""

\* "prompt" taken for a system prompt
infer_role_from_kw_promptIsSystem(kwarg_name) ==
  IF kwarg_name \in {"system", "system_prompt", "prompt"} THEN "system"
  ELSE IF kwarg_name \in {"user", "input"} THEN "user"
  ELSE IF kwarg_name \in {"tool", "tools_prompt"} THEN "tool"
  ELSE "unknown"

\* _infer_role_from_kw (65-69)
infer_role_from_kw(kwarg_name) ==
  IF kwarg_name \in {"system", "system_prompt"} THEN "system"
  ELSE IF kwarg_name \in {"user", "prompt", "input"} THEN "user"
  ELSE IF kwarg_name \in {"tool", "tools_prompt"} THEN "tool"
  ELSE "unknown"

artifact(role, text, file_path, node, func_stack) ==
  [role |-> role, text |-> text, filePath |-> file_path, line |-> node.lineno,
   functionName |-> IF func_stack # <<>> THEN func_stack[Len(func_stack)] ELSE None,
   callSignature |-> dotJoin(callee_segments(node.func))]

\* the kwarg-based loop (76-86)
RECURSIVE kwargArtifacts(_, _, _, _)
kwargArtifacts(node, j, file_path, func_stack) ==
  IF j > Len(node.keywords) THEN <<>>
  ELSE LET kw == node.keywords[j]
           text == extract_string(kw.value)
       IN (IF truthy(text)
           THEN <<artifact(IF kw.arg # "" THEN infer_role_from_kw(kw.arg) ELSE "unknown",
                           text, file_path, node, func_stack)>>
           ELSE <<>>)
          \o kwargArtifacts(node, j + 1, file_path, func_stack)

\* k == "role" for k = key.s of a Constant key, None otherwise (90, 96, 99)
keyIs(key, s) == key.kind = "Constant" /\ key.str /\ key.value = s

\* the loop over zip(keys, values) (95-100): the last literal role and the
\* last content are kept
RECURSIVE zipRole(_, _, _), zipText(_, _, _)
zipRole(dict, j, role) ==
  IF j > Len(dict.keys) THEN role
  ELSE zipRole(dict, j + 1,
         IF /\ keyIs(dict.keys[j], "role")
            /\ dict.items[j].kind = "Constant" /\ dict.items[j].str
         THEN dict.items[j].value ELSE role)
zipText(dict, j, text) ==
  IF j > Len(dict.keys) THEN text
  ELSE zipText(dict, j + 1,
         IF keyIs(dict.keys[j], "content") THEN extract_string(dict.items[j])
         ELSE text)

\* one role/content mapping (90-109, 113-132)
dictArtifacts(dict, node, file_path, func_stack) ==
  IF /\ \E j \in 1..Len(dict.keys) : keyIs(dict.keys[j], "role")
     /\ \E j \in 1..Len(dict.keys) : keyIs(dict.keys[j], "content")
  THEN LET role == zipRole(dict, 1, None)
           text == zipText(dict, 1, None)
       IN IF truthy(text)
          THEN <<artifact(IF truthy(role) THEN role ELSE "unknown",
                          text, file_path, node, func_stack)>>
          ELSE <<>>
  ELSE <<>>

RECURSIVE listArtifacts(_, _, _, _, _)
listArtifacts(elts, j, node, file_path, func_stack) ==
  IF j > Len(elts) THEN <<>>
  ELSE (IF elts[j].kind = "Dict"
        THEN dictArtifacts(elts[j], node, file_path, func_stack) ELSE <<>>)
       \o listArtifacts(elts, j + 1, node, file_path, func_stack)

\* the args-based loop (88-132)
RECURSIVE argArtifacts(_, _, _, _)
argArtifacts(node, j, file_path, func_stack) ==
  IF j > Len(node.items) THEN <<>>
  ELSE LET arg == node.items[j] IN
       (IF arg.kind = "Dict" THEN dictArtifacts(arg, node, file_path, func_stack)
        ELSE IF arg.kind = "List"
        THEN listArtifacts(arg.items, 1, node, file_path, func_stack)
        ELSE <<>>)
       \o argArtifacts(node, j + 1, file_path, func_stack)

\* visit_FunctionDef (36-39), visit_Call (71-133) and generic_visit: the
\* results appended while a node and the nodes below it are visited
RECURSIVE visit(_, _, _), visitEach(_, _, _, _)
visit(node, file_path, func_stack) ==
  CASE node.kind = "FunctionDef" ->
         visitEach(node.items, 1, file_path, Append(func_stack, node.value))
    [] node.kind = "Call" ->
         (IF isLlmCallee(callee_segments(node.func))
          THEN kwargArtifacts(node, 1, file_path, func_stack)
               \o argArtifacts(node, 1, file_path, func_stack)
          ELSE <<>>)
         \o visitEach(node.items, 1, file_path, func_stack)
         \o visitEach([j \in 1..Len(node.keywords) |-> node.keywords[j].value],
                      1, file_path, func_stack)
    [] OTHER -> visitEach(node.items, 1, file_path, func_stack)
visitEach(nodes, j, file_path, func_stack) ==
  IF j > Len(nodes) THEN <<>>
  ELSE visit(nodes[j], file_path, func_stack)
       \o visitEach(nodes, j + 1, file_path, func_stack)

\* extract_from_file (pythonExtractor.ts 136-145): the results of
\* PromptVisitor on a file that opens and parses, none otherwise
extract_from_file(entry, path) ==
  IF /\ entry.type = "file" /\ entry.readable
     /\ \A j \in 1..Len(entry.py) : entry.py[j].kind # "SyntaxError"
  THEN visitEach(entry.py, 1, path, <<>>)
  ELSE <<>>

\* walk_dir (pythonExtractor.ts 148-155): os.walk is top-down; the files of
\* a directory come before its subdirectories, a directory that cannot be
\* listed is passed over
RECURSIVE walk_dir(_, _), walk_files(_, _, _), walk_subdirs(_, _, _)
walk_dir(node, dirpath) ==
  IF ~node.readable THEN <<>>
  ELSE walk_files(node.children, 1, dirpath) \o walk_subdirs(node.children, 1, dirpath)
walk_files(entries, k, dirpath) ==
  IF k > Len(entries) THEN <<>>
  ELSE (IF entries[k].type # "dir" /\ endsWith(entries[k].name, S_dotpy)
        THEN extract_from_file(entries[k], join(dirpath, entries[k].name))
        ELSE <<>>)
       \o walk_files(entries, k + 1, dirpath)
walk_subdirs(entries, k, dirpath) ==
  IF k > Len(entries) THEN <<>>
  ELSE (IF entries[k].type = "dir"
        THEN walk_dir(entries[k], join(dirpath, entries[k].name))
        ELSE <<>>)
       \o walk_subdirs(entries, k + 1, dirpath)

\* what the extractor process does once it is asked to start
ExtractorOutcomes == {"ok", "nonzero_exit", "unparsable_output", "spawn_error"}
\* what ensurePythonScript does
EnsureOutcomes == {"ok", "mkdir_failed", "write_failed"}

\* --- route.ts 197-215: the file pass --------------------------------------
MaxFilesListed == 3000
MaxFileSize == 1024 * 1024
PerFileSecretCap == 5
PerFileHitCap == 10
OverallSecretCap == 200

\* route.ts 203
excludedPath(file) == includes(toLowerCase(file), S_prisma)
\* route.ts 206
tooLarge(size) == size > MaxFileSize
\* route.ts 209 without the slice: every finding of the file is kept
cappedFindings_uncapped(findings) == findings

\* route.ts 209
cappedFindings(findings) == slice(findings, PerFileSecretCap)
\* route.ts 211
cappedHits(promptHits) == slice(promptHits, PerFileHitCap)
\* route.ts 212
overallCapReached(secretFindings) == Len(secretFindings) > OverallSecretCap

\* one iteration of the loop over the files (route.ts 203-213)
filePassFile(root, file, acc) ==
  LET entry == fsLookup(root, targetDir, file)
      secrets2 == acc.secretFindings
                  \o cappedFindings(scanTextForSecrets(entry.lines, file))
      hits2 == acc.promptKeywordHits
               \o cappedHits(scanTextForPromptKeywords(entry.lines, file))
  IN IF excludedPath(file) THEN acc
     ELSE IF tooLarge(entry.size) THEN acc
     ELSE IF ~entry.readable THEN acc
     ELSE [secretFindings |-> secrets2, promptKeywordHits |-> hits2,
           broke |-> overallCapReached(secrets2)]

RECURSIVE filePassLoop(_, _, _, _)
filePassLoop(root, files, i, acc) ==
  IF i > Len(files) \/ acc.broke THEN acc
  ELSE filePassLoop(root, files, i + 1, filePassFile(root, files[i], acc))

\* route.ts 200-215: a listing that throws leaves both lists empty
filePass(listing) ==
  LET r == listAllFiles(listing, targetDir, MaxFilesListed) IN
  IF r.thrown
  THEN [secretFindings |-> <<>>, promptKeywordHits |-> <<>>, broke |-> FALSE]
  ELSE filePassLoop(listing, r.out, 1,
         [secretFindings |-> <<>>, promptKeywordHits |-> <<>>, broke |-> FALSE])

\* --- analyzePrompts (part_004 40-105) -------------------------------------
NullAnalysis == [isNull |-> TRUE, summary |-> "", files |-> <<>>]

\* a reply of the text-generation service: whether the request reached it,
\* whether its body is JSON, and the assistant text as a sequence of lexemes
\* (<<>> when choices[0].message.content is absent or empty)
Reply(fetch, body, content) ==
  [fetch |-> fetch, body |-> body, content |-> content]

R_network_error == Reply("network_error", "none", <<>>)
R_non_json_body == Reply("ok", "non_json", <<>>)
R_no_content == Reply("ok", "json", <<>>)
R_no_braces == Reply("ok", "json", <<"Sorry">>)
R_invalid_json == Reply("ok", "json", <<"{", "Sorry", "}">>)
R_no_summary == Reply("ok", "json", <<"{", "files:[]", "}">>)
R_files_not_array == Reply("ok", "json", <<"{", "summary:s", "files:1", "}">>)
R_valid == Reply("ok", "json", <<"{", "summary:s", "files:[]", "}">>)
R_empty_summary == Reply("ok", "json", <<"{", "summary:", "files:[]", "}">>)
R_valid_in_commentary ==
  Reply("ok", "json", <<"Sure", "{", "summary:s", "files:[]", "}", "Done">>)

\* the replies of the text-generation service
Replies ==
  {R_network_error, R_non_json_body, R_no_content, R_no_braces,
   R_invalid_json, R_no_summary, R_files_not_array, R_valid,
   R_valid_in_commentary}

\* the lexemes that are a member of a JSON object: summary as a non-empty
\* or an empty string, files as an array or as a number
MemberTokens == {"summary:s", "summary:", "files:[]", "files:1"}

\* String.prototype.indexOf / lastIndexOf over lexemes, from 1; 0 is JS's -1
indexOf(content, tok) ==
  LET at == {i \in 1..Len(content) : content[i] = tok}
  IN IF at = {} THEN 0 ELSE least(at)
lastIndexOf(content, tok) ==
  LET at == {i \in 1..Len(content) : content[i] = tok}
  IN IF at = {} THEN 0 ELSE greatest(at)

\* part_004 91-96: the text handed to JSON.parse
jsonTextOf(content) ==
  LET firstBrace == indexOf(content, "{")
      lastBrace == lastIndexOf(content, "}")
  IN IF firstBrace # 0 /\ lastBrace # 0
     THEN SubSeq(content, firstBrace, lastBrace)
     ELSE content

\* JSON.parse: the lexemes are an object when they are "{" members "}", the
\* value null when they are the literal null; anything else throws
JSON_parse(jsonText) ==
  IF jsonText = <<"null">>
  THEN [thrown |-> FALSE, isObject |-> FALSE, members |-> <<>>]
  ELSE IF /\ Len(jsonText) >= 2
          /\ jsonText[1] = "{"
          /\ jsonText[Len(jsonText)] = "}"
          /\ \A i \in 2..(Len(jsonText) - 1) : jsonText[i] \in MemberTokens
       THEN [thrown |-> FALSE, isObject |-> TRUE,
             members |-> SubSeq(jsonText, 2, Len(jsonText) - 1)]
       ELSE [thrown |-> TRUE, isObject |-> FALSE, members |-> <<>>]

\* the value of a key of a parsed object: its last member with that key
\* ("undefined" when the key is absent or the value is not an object)
memberOf(parsed, keyTokens) ==
  LET at == {i \in 1..Len(parsed.members) : parsed.members[i] \in keyTokens}
  IN IF at = {} THEN "undefined" ELSE parsed.members[greatest(at)]

\* the check without Array.isArray(parsed.files)
validAnalysis_summaryOnly(parsed) ==
  memberOf(parsed, {"summary:s", "summary:"}) = "summary:s"
\* part_004 98: !parsed?.summary || !Array.isArray(parsed?.files)
validAnalysis(parsed) ==
  /\ memberOf(parsed, {"summary:s", "summary:"}) = "summary:s"
  /\ memberOf(parsed, {"files:[]", "files:1"}) = "files:[]"

\* part_004 74-104: what the try block makes of the reply
analyzeReply(reply) ==
  IF reply.fetch # "ok" THEN NullAnalysis
  ELSE IF reply.body # "json" THEN NullAnalysis
  ELSE IF reply.content = <<>> THEN NullAnalysis
  ELSE LET parsed == JSON_parse(jsonTextOf(reply.content))
       IN IF parsed.thrown THEN NullAnalysis
          ELSE IF ~validAnalysis(parsed) THEN NullAnalysis
          ELSE [isNull |-> FALSE, summary |-> "s", files |-> <<>>]

\* part_004 45-46 and 75: the outbound call is behind the credential check
outboundCall(key) == IF ~key THEN "no_call" ELSE "fetch"

\* the function without its credential check
analyzePromptContext_noCredentialCheck(input, key, reply) ==
  analyzeReply(reply)
analyzePromptContext(input, key, reply) ==
  IF ~key THEN NullAnalysis
  ELSE analyzeReply(reply)

\* --- route.ts 188-247: the order of the stages ----------------------------
\* the order in which the display tree is built before the synthesizer runs
nextStage_treeFirst(stage) ==
  CASE stage = "structural" -> "filePass"
    [] stage = "filePass" -> "displayTree"
    [] stage = "displayTree" -> "narrative"
    [] stage = "narrative" -> "respond"
    [] stage = "respond" -> "done"

\* route.ts 188-247: structural extraction, file pass, synthesizer, display
\* tree, response
nextStage(stage) ==
  CASE stage = "structural" -> "filePass"
    [] stage = "filePass" -> "narrative"
    [] stage = "narrative" -> "displayTree"
    [] stage = "displayTree" -> "respond"
    [] stage = "respond" -> "done"

\* ------------------------------------------------------------------------
\* State
\* ------------------------------------------------------------------------
Scans == {1, 2}

VARIABLES
  fs,                 \* the directory tree at targetDir
  apiKey,             \* process.env.OPENAI_API_KEY is set
  pc,                 \* per scan: the stage POST is about to run
  req,                \* per scan: the validated request body
  pythonPrompts,      \* per scan
  secretFindings,     \* per scan
  promptKeywordHits,  \* per scan
  modelAnalysis,      \* per scan
  fileTree,           \* per scan
  response,           \* per scan: the Response returned by POST
  log,                \* per scan: the stages run so far, in order
  wFs,                \* walker on its own: the directory tree under wRoot
  walkerCall,         \* walker on its own: the call, its arguments and result
  now,                \* Date.now(), in ms
  ipToRecord,         \* the rate limiter's Map: per IP a RateRecord or none
  calls,              \* the checkRateLimit calls made so far and their results
  repos,              \* .data/repos: per directory name the checkout in it
  serviceReply,       \* what the text-generation service answers
  reported            \* the labels reported by the keyword scans made so far

scanVars ==
  <<fs, apiKey, pc, req, pythonPrompts, secretFindings, promptKeywordHits,
    modelAnalysis, fileTree, response, log>>
outerVars == <<now, ipToRecord, calls, repos, serviceReply, reported>>
walkerVars == <<wFs, walkerCall, outerVars>>
vars ==
  <<fs, apiKey, pc, req, pythonPrompts, secretFindings, promptKeywordHits,
    modelAnalysis, fileTree, response, log, wFs, walkerCall, now, ipToRecord,
    calls, repos, serviceReply, reported>>

NoTree == [name |-> <<>>, path |-> <<>>, type |-> "none"]
NoCall ==
  [op |-> "none", budget |-> 0, maxDepth |-> 0, thrown |-> FALSE,
   list |-> <<>>, tree |-> NoTree]
NoResponse == [status |-> 0, ok |-> FALSE]
NoRequest == [localPath |-> "none", useModel |-> FALSE]
EmptyDir == DirNode(<<"r">>, TRUE, <<>>)

\* the client IPs and the directory names under .data/repos of the model
Ips == {"ip1", "ip2"}
RepoNames == {"app", "lib"}
NoRecord == [count |-> 0, resetAtMs |-> 0]
NoCheckout == [origin |-> "", clones |-> 0]
NoReply == [fetch |-> "none", body |-> "none", content |-> <<>>]

LimiterIdle ==
  /\ now = 0
  /\ ipToRecord = [ip \in Ips |-> NoRecord]
  /\ calls = <<>>
ReposIdle == repos = [name \in RepoNames |-> NoCheckout]
ReplyIdle == serviceReply = NoReply
ReportedIdle == reported = {}

OuterIdle == LimiterIdle /\ ReposIdle /\ ReplyIdle /\ ReportedIdle

ScanAtRest ==
  /\ pc = [s \in Scans |-> "idle"]
  /\ req = [s \in Scans |-> NoRequest]
  /\ pythonPrompts = [s \in Scans |-> <<>>]
  /\ secretFindings = [s \in Scans |-> <<>>]
  /\ promptKeywordHits = [s \in Scans |-> <<>>]
  /\ modelAnalysis = [s \in Scans |-> NullAnalysis]
  /\ fileTree = [s \in Scans |-> NoTree]
  /\ response = [s \in Scans |-> NoResponse]
  /\ log = [s \in Scans |-> <<>>]

ScanIdle == ScanAtRest /\ OuterIdle

WalkerIdle ==
  /\ wFs = EmptyDir
  /\ walkerCall = NoCall

\* ------------------------------------------------------------------------
\* The Directory Walker on its own: listAllFiles and buildFileTree applied
\* to bounded directory trees with bounded budgets.
\* ------------------------------------------------------------------------
S_a == <<"a">>
S_B == <<"B">>
S_s == <<"s">>
S_d == <<"d">>
S_u == <<"u">>
S_Prisma == <<"P","r","i","s","m","a">>
wRoot == <<"/","r">>

PlainFile(name) == FileNode(name, 1, TRUE, <<>>, <<>>)

WalkLeafPool == {PlainFile(S_a), PlainFile(S_B)}

RECURSIVE SetToSeq(_)
SetToSeq(S) ==
  IF S = {} THEN <<>>
  ELSE LET x == CHOOSE y \in S : TRUE IN <<x>> \o SetToSeq(S \ {x})

WalkLeafSeqs ==
  {SetToSeq(S) : S \in SUBSET WalkLeafPool}

\* the entries of a directory with at most n levels of directories below it
RECURSIVE WalkKids(_)
WalkKids(n) ==
  IF n = 0 THEN WalkLeafSeqs
  ELSE WalkLeafSeqs \cup
       {Append(ls, DirNode(S_d, TRUE, ks)) :
          ls \in WalkLeafSeqs, ks \in WalkKids(n - 1)}

\* entries met at the root only: an entry that is neither file nor
\* directory, an ignored directory, a directory that cannot be opened, a
\* file whose name holds "prisma" in another case, a directory named prisma
WalkSpecials ==
  {<<>>,
   <<OtherNode(S_s)>>,
   <<DirNode(S_git, TRUE, <<PlainFile(S_a)>>)>>,
   <<DirNode(S_u, FALSE, <<PlainFile(S_a)>>)>>,
   <<PlainFile(S_Prisma)>>,
   <<DirNode(S_prisma, TRUE, <<PlainFile(S_a)>>)>>}

WalkInputs ==
  {DirNode(<<"r">>, TRUE, ks \o sp) : ks \in WalkKids(MaxNest), sp \in WalkSpecials}

WalkInit ==
  /\ wFs \in WalkInputs
  /\ walkerCall = NoCall
  /\ fs = EmptyDir
  /\ apiKey = FALSE
  /\ ScanIdle

\* await listAllFiles(wRoot, maxFiles)
CallListAllFiles ==
  /\ walkerCall.op = "none"
  /\ \E maxFiles \in 0..MaxBudget :
       \E r \in {listAllFiles(listing, wRoot, maxFiles) :
                    listing \in fsListings(wFs)} :
         walkerCall' = [op |-> "listAllFiles", budget |-> maxFiles,
                        maxDepth |-> 0, thrown |-> r.thrown, list |-> r.out,
                        tree |-> NoTree]
  /\ UNCHANGED <<outerVars, wFs, scanVars>>

\* await buildFileTree(wRoot, {maxDepth, maxNodes})
CallBuildFileTree ==
  /\ walkerCall.op = "none"
  /\ \E maxNodes \in 0..MaxBudget, maxDepth \in 1..MaxDepthArg :
       \E tree \in {buildFileTree(listing, wRoot, maxDepth, maxNodes) :
                       listing \in fsListings(wFs)} :
         walkerCall' = [op |-> "buildFileTree", budget |-> maxNodes,
                        maxDepth |-> maxDepth, thrown |-> FALSE, list |-> <<>>,
                        tree |-> tree]
  /\ UNCHANGED <<outerVars, wFs, scanVars>>

WalkNext == CallListAllFiles \/ CallBuildFileTree

SpecWalk == WalkInit /\ [][WalkNext]_vars

\* C1: the tree returned by buildFileTree(root, {maxDepth, maxNodes: M})
\* holds at most M nodes below its root, whatever the nesting.
C1_TreeWithinNodeBudget ==
  walkerCall.op = "buildFileTree" =>
    countNodes(walkerCall.tree) <= walkerCall.budget

\* C2: the list returned by listAllFiles(root, N) has at most N entries.
\* `out` only grows during the walk, so its final length bounds its length
\* at every step; the list held when a readdir throws is bounded as well.
C2_ListWithinFileBudget ==
  walkerCall.op = "listAllFiles" =>
    Len(walkerCall.list) <= walkerCall.budget

\* a walk cut short by the budget after it came back from a nested directory
C2_Witness ==
  /\ walkerCall.op = "listAllFiles"
  /\ ~walkerCall.thrown
  /\ walkerCall.budget = 2
  /\ Len(walkerCall.list) = 2
  /\ walkerCall.list[1] = join(join(wRoot, S_d), S_a)
  /\ Len(listAllFiles(wFs, wRoot, 3000).out) > 2

\* ------------------------------------------------------------------------
\* The scan pipeline: inputs
\* ------------------------------------------------------------------------
\* most entries of the scanned root directory
MaxEntries == 2
\* most files of a flat directory full of secrets
MaxFlatFiles == 41

K_openai == "sk-abcdefghijklmnopqrstuvwx"
K_bearer == "Bearer abc.def"
K_url == "https://h.example.com/v1/token=1"

T_secret1 == <<<<"key", "=", K_openai>>>>
T_secrets7 ==
  <<<<K_bearer, K_openai>>, <<K_openai>>, <<K_url>>, <<"x">>, <<K_openai>>,
    <<K_openai>>, <<K_bearer>>>>
T_hits11 == [k \in 1..11 |-> <<"const", "system_prompt", "=">>]
T_rich == T_secrets7 \o T_hits11
T_mixed == <<<<"role", ":", "\"system\"">>, <<"token", K_openai>>>>

\* def ask(): with one recognized call on line 3, or on line 7
A_system ==
  FunctionDef("ask",
    <<Call("client", <<"chat", "completions", "create">>, <<>>,
           <<Keyword("system", Str("Be concise."))>>, 3)>>)
A_user ==
  FunctionDef("ask",
    <<Call("llm", <<"invoke">>, <<>>, <<Keyword("user", Str("U"))>>, 7)>>)

S_e == <<"e">>
S_k == <<"k">>
S_big == <<"b","i","g">>
S_mpy == <<"m",".","p","y">>
S_npy == <<"n",".","p","y">>

T_block ==
  <<<<"const", "p", "=", "{", "system", ":", Backtick, "You", "are", "helpful">>,
    <<"be", "kind", Backtick, "}">>,
    <<"role", "=", "'system'", ",", "content", "=", "\"\"\"", "Hi", "\"\"\"">>>>
S_c == <<"c">>
F_block == FileNode(S_c, 10, TRUE, T_block, <<>>)
F_a == FileNode(S_a, 10, TRUE, T_mixed, <<>>)
F_rich == FileNode(S_B, 10, TRUE, T_rich, <<>>)
F_Prisma == FileNode(S_Prisma, 10, TRUE, T_secret1, <<>>)
F_big == FileNode(S_big, MaxFileSize + 1, TRUE, T_mixed, <<>>)
F_edge == FileNode(S_e, MaxFileSize, TRUE, T_secret1, <<>>)
F_locked == FileNode(S_k, 10, FALSE, T_mixed, <<>>)
F_mpy == FileNode(S_mpy, 10, TRUE, <<<<"x">>>>, <<A_system>>)
F_npy == FileNode(S_npy, 10, TRUE, T_secret1, <<A_user>>)
D_d == DirNode(S_d, TRUE, <<FileNode(S_a, 10, TRUE, T_secret1, <<>>), F_npy>>)
D_locked == DirNode(S_u, FALSE, <<FileNode(S_a, 10, TRUE, T_secret1, <<>>)>>)
D_prisma == DirNode(S_prisma, TRUE, <<FileNode(S_a, 10, TRUE, T_secret1, <<>>)>>)

ScanPool ==
  {F_a, F_block, F_rich, F_Prisma, F_big, F_edge, F_locked, F_mpy, OtherNode(S_s),
   D_d, D_locked, D_prisma}

SmallInputs ==
  {DirNode(<<"r">>, TRUE, SetToSeq(S)) :
     S \in {T \in SUBSET ScanPool : Cardinality(T) <= MaxEntries}}

\* one file at the bottom of a chain of n directories
RECURSIVE Chain(_)
Chain(n) ==
  IF n = 0 THEN <<FileNode(S_a, 10, TRUE, T_secret1, <<>>)>>
  ELSE <<DirNode(S_d, TRUE, Chain(n - 1))>>

FlatName(k) == <<"f", Digits[(k \div 10) + 1], Digits[(k % 10) + 1]>>
FlatDir(n) ==
  DirNode(<<"r">>, TRUE,
          [k \in 1..n |-> FileNode(FlatName(k), 10, TRUE, T_secrets7, <<>>)])

\* directories with just enough files to reach the overall cap, and more
FlatInputs ==
  {FlatDir(n) : n \in (OverallSecretCap \div PerFileSecretCap)..MaxFlatFiles}

NarrativeTreeDepth == 4
NarrativeTreeNodes == 1200
DisplayTreeDepth == 8
DisplayTreeNodes == 5000

ScanInputs ==
  SmallInputs \cup {DirNode(<<"r">>, TRUE, Chain(NarrativeTreeDepth))}

\* the directories scanned twice
TwicePool == {F_a, F_edge, F_mpy, DirNode(S_d, TRUE, <<F_npy>>)}
TwiceInputs ==
  {DirNode(<<"r">>, TRUE, SetToSeq(S)) :
     S \in {T \in SUBSET TwicePool : Cardinality(T) <= MaxEntries}}

\* ------------------------------------------------------------------------
\* The scan pipeline: POST (route.ts 103-248), one action per stage
\* ------------------------------------------------------------------------
Init ==
  /\ fs \in ScanInputs
  /\ apiKey \in BOOLEAN
  /\ ScanIdle
  /\ WalkerIdle

Finished(s) == pc[s] \in {"done", "uncaughtError"}

LogEntry(stage, outcome, tree) ==
  [stage |-> stage, outcome |-> outcome, tree |-> tree]

\* route.ts 141-158: body.localPath names targetDir, a file, or nothing
ValidateTarget(s) ==
  /\ pc[s] = "idle"
  /\ \E localPath \in {"dir", "file", "missing"}, useModel \in BOOLEAN :
       /\ req' = [req EXCEPT ![s] = [localPath |-> localPath, useModel |-> useModel]]
       /\ IF localPath = "dir"
          THEN /\ pc' = [pc EXCEPT ![s] = "structural"]
               /\ UNCHANGED response
          ELSE /\ pc' = [pc EXCEPT ![s] = "done"]
               /\ response' = [response EXCEPT ![s] = [status |-> 400, ok |-> FALSE]]
  /\ UNCHANGED <<fs, apiKey, pythonPrompts, secretFindings, promptKeywordHits,
                 modelAnalysis, fileTree, log, walkerVars>>

\* ensurePythonScript (pythonExtractor.ts 14-170): the tree it leaves
ensurePythonScript(root, ensure) ==
  CASE ensure = "mkdir_failed" -> root
    [] ensure = "write_failed" -> mkdirTempDir(root)
    [] ensure = "ok" -> writeScript(mkdirTempDir(root))

\* extractPythonPrompts that resolves with whatever was read from stdout,
\* whatever the exit code (pythonExtractor.ts 182-184 without the reject)
extractPythonPrompts_ignoresExitCode(listing, ensure, outcome) ==
  IF ensure # "ok" THEN [settled |-> "rejected", value |-> <<>>]
  ELSE CASE outcome = "spawn_error" -> [settled |-> "never", value |-> <<>>]
         [] outcome = "nonzero_exit" ->
              [settled |-> "resolved", value |-> walk_dir(listing, targetDir)]
         [] outcome = "unparsable_output" -> [settled |-> "rejected", value |-> <<>>]
         [] outcome = "ok" ->
              [settled |-> "resolved", value |-> walk_dir(listing, targetDir)]

\* extractPythonPrompts (pythonExtractor.ts 172-193): how the promise
\* settles.  The child process has listeners for "data" and "close" only:
\* when the process cannot be started, the "error" event has no listener,
\* is thrown outside the promise, and the promise never settles.
extractPythonPrompts(listing, ensure, outcome) ==
  IF ensure # "ok" THEN [settled |-> "rejected", value |-> <<>>]
  ELSE CASE outcome = "spawn_error" -> [settled |-> "never", value |-> <<>>]
         [] outcome = "nonzero_exit" -> [settled |-> "rejected", value |-> <<>>]
         [] outcome = "unparsable_output" -> [settled |-> "rejected", value |-> <<>>]
         [] outcome = "ok" ->
              [settled |-> "resolved", value |-> walk_dir(listing, targetDir)]

\* route.ts 188-195
StructuralStage(s) ==
  /\ pc[s] = "structural"
  /\ \E ensure \in EnsureOutcomes, outcome \in ExtractorOutcomes :
       /\ fs' = ensurePythonScript(fs, ensure)
       /\ \E r \in {extractPythonPrompts(listing, ensure, outcome) :
                      listing \in fsListings(fs')} :
            /\ pythonPrompts' =
                 [pythonPrompts EXCEPT ![s] =
                    IF r.settled = "resolved" THEN r.value ELSE <<>>]
            /\ pc' = [pc EXCEPT ![s] =
                        IF r.settled = "never" THEN "uncaughtError"
                        ELSE nextStage("structural")]
            /\ log' = [log EXCEPT ![s] =
                         Append(@, LogEntry("structural",
                                   IF ensure = "ok" THEN outcome ELSE ensure,
                                   NoTree))]
  /\ UNCHANGED <<apiKey, req, secretFindings, promptKeywordHits, modelAnalysis,
                 fileTree, response, walkerVars>>

\* route.ts 197-215
FilePassStage(s) ==
  /\ pc[s] = "filePass"
  /\ \E r \in {filePass(listing) : listing \in fsListings(fs)} :
       /\ secretFindings' = [secretFindings EXCEPT ![s] = r.secretFindings]
       /\ promptKeywordHits' = [promptKeywordHits EXCEPT ![s] = r.promptKeywordHits]
  /\ pc' = [pc EXCEPT ![s] = nextStage("filePass")]
  /\ log' = [log EXCEPT ![s] = Append(@, LogEntry("filePass", "ok", NoTree))]
  /\ UNCHANGED <<fs, apiKey, req, pythonPrompts, modelAnalysis, fileTree,
                 response, walkerVars>>

\* the replies the service may give to this scan: the one fixed for the
\* run when there is one, any of Replies otherwise
repliesOffered == IF serviceReply = NoReply THEN Replies ELSE {serviceReply}

\* route.ts 217-227
NarrativeStage(s) ==
  /\ pc[s] = "narrative"
  /\ IF req[s].useModel
     THEN \E tree \in {buildFileTree(listing, targetDir, NarrativeTreeDepth,
                                     NarrativeTreeNodes) :
                         listing \in fsListings(fs)} :
            LET input == [hits |-> promptKeywordHits[s],
                          python |-> pythonPrompts[s], fileTree |-> tree]
            IN \E reply \in repliesOffered :
               /\ modelAnalysis' =
                    [modelAnalysis EXCEPT ![s] =
                       analyzePromptContext(input, apiKey, reply)]
               /\ log' = [log EXCEPT ![s] =
                            @ \o <<LogEntry("narrativeTree", "ok", tree),
                                   LogEntry("narrative", outboundCall(apiKey),
                                            input.fileTree)>>]
     ELSE UNCHANGED <<modelAnalysis, log>>
  /\ pc' = [pc EXCEPT ![s] = nextStage("narrative")]
  /\ UNCHANGED <<fs, apiKey, req, pythonPrompts, secretFindings,
                 promptKeywordHits, fileTree, response, walkerVars>>

\* route.ts 229-235
DisplayTreeStage(s) ==
  /\ pc[s] = "displayTree"
  /\ \E tree \in {buildFileTree(listing, targetDir, DisplayTreeDepth,
                                  DisplayTreeNodes) :
                      listing \in fsListings(fs)} :
       /\ fileTree' = [fileTree EXCEPT ![s] = tree]
       /\ log' = [log EXCEPT ![s] = Append(@, LogEntry("displayTree", "ok", tree))]
  /\ pc' = [pc EXCEPT ![s] = nextStage("displayTree")]
  /\ UNCHANGED <<fs, apiKey, req, pythonPrompts, secretFindings,
                 promptKeywordHits, modelAnalysis, response, walkerVars>>

\* route.ts 237-247
Respond(s) ==
  /\ pc[s] = "respond"
  /\ response' = [response EXCEPT ![s] = [status |-> 200, ok |-> TRUE]]
  /\ pc' = [pc EXCEPT ![s] = nextStage("respond")]
  /\ UNCHANGED <<fs, apiKey, req, pythonPrompts, secretFindings,
                 promptKeywordHits, modelAnalysis, fileTree, log, walkerVars>>

\* one step of the scan s
ScanStep(s) ==
  \/ ValidateTarget(s)
  \/ StructuralStage(s)
  \/ FilePassStage(s)
  \/ NarrativeStage(s)
  \/ DisplayTreeStage(s)
  \/ Respond(s)

\* one scan of one directory
Next == ScanStep(1)

Spec == Init /\ [][Next]_vars

\* two scans of one directory, the second after the first has responded
TwiceInit ==
  /\ fs \in TwiceInputs
  /\ apiKey \in BOOLEAN
  /\ ScanIdle
  /\ WalkerIdle

TwiceNext ==
  \/ ScanStep(1)
  \/ (Finished(1) /\ ScanStep(2))

SpecTwice == TwiceInit /\ [][TwiceNext]_vars

\* one scan of a flat directory full of secrets
FlatInit ==
  /\ fs \in FlatInputs
  /\ apiKey \in BOOLEAN
  /\ ScanIdle
  /\ WalkerIdle
SpecFlat == FlatInit /\ [][Next]_vars

\* ------------------------------------------------------------------------
\* Properties of the scan pipeline
\* ------------------------------------------------------------------------
stageNames(l) == [k \in 1..Len(l) |-> l[k].stage]
StageRun(s, stage) == \E k \in 1..Len(log[s]) : log[s][k].stage = stage
Answered(s) == pc[s] = "done" /\ req[s].localPath = "dir"
ExtractorOutcome(s) == log[s][1].outcome

\* the findings of secretFindings[s] that come from the file at path
SecretsFrom(s, path) ==
  {k \in 1..Len(secretFindings[s]) : secretFindings[s][k].filePath = path}
HitsFrom(s, path) ==
  {k \in 1..Len(promptKeywordHits[s]) : promptKeywordHits[s][k].filePath = path}

\* C3: at the end of the file pass the secret findings of the result number
\* at most the overall cap.
C3_SecretsWithinOverallCap ==
  \A s \in Scans :
    StageRun(s, "filePass") => Len(secretFindings[s]) <= OverallSecretCap

\* C4: no file contributes more than 5 secret findings or more than 10
\* lexical hits, and nothing comes from a file larger than 1 MiB or from a
\* path that holds "prisma" in any case.
C4_PerFileCapsAndSkips ==
  \A s \in Scans :
    StageRun(s, "filePass") =>
      /\ \A k \in 1..Len(secretFindings[s]) :
           LET f == secretFindings[s][k].filePath IN
           /\ Cardinality(SecretsFrom(s, f)) <= 5
           /\ fsLookup(fs, targetDir, f).size <= 1024 * 1024
           /\ ~includes(toLowerCase(f), S_prisma)
      /\ \A k \in 1..Len(promptKeywordHits[s]) :
           LET f == promptKeywordHits[s][k].filePath IN
           /\ Cardinality(HitsFrom(s, f)) <= 10
           /\ fsLookup(fs, targetDir, f).size <= 1024 * 1024
           /\ ~includes(toLowerCase(f), S_prisma)

\* a scan of a file with 7 findings and 11 hits next to a file over 1 MiB
C4_Witness ==
  /\ Answered(1)
  /\ hasEntry(fs, S_B) /\ hasEntry(fs, S_big)
  /\ Len(scanTextForSecrets(T_rich, join(targetDir, S_B))) > 5
  /\ Len(scanTextForPromptKeywords(T_rich, join(targetDir, S_B))) > 10
  /\ Cardinality(SecretsFrom(1, join(targetDir, S_B))) = 5
  /\ Cardinality(HitsFrom(1, join(targetDir, S_B))) = 10
  /\ SecretsFrom(1, join(targetDir, S_big)) = {}

StageIndex(s, stage) == CHOOSE k \in 1..Len(log[s]) : log[s][k].stage = stage

C6_ExtractorFailureDegrades ==
  \A s \in Scans :
    (Answered(s) /\ ExtractorOutcome(s) \in {"nonzero_exit", "unparsable_output"}) =>
      /\ response[s] = [status |-> 200, ok |-> TRUE]
      /\ pythonPrompts[s] = <<>>
      /\ \E l \in fsListings(fs) :
           LET r == filePass(l)
           IN /\ secretFindings[s] = r.secretFindings
              /\ promptKeywordHits[s] = r.promptKeywordHits
      /\ \E l \in fsListings(fs) :
           fileTree[s] = buildFileTree(l, targetDir, 8, 5000)

\* a scan answered after the extractor exited non-zero on a directory in
\* which a successful extractor finds artifacts
C6_Witness ==
  /\ Answered(1)
  /\ ExtractorOutcome(1) = "nonzero_exit"
  /\ walk_dir(fs, targetDir) # <<>>
  /\ secretFindings[1] # <<>>
  /\ response[1].ok

\* C7: once the target directory is validated every scan answers 200 with
\* ok: true; no failure of a sub-stage leaves the request without response.
C7_ValidatedScanResponds ==
  \A s \in Scans :
    /\ pc[s] # "uncaughtError"
    /\ Answered(s) => response[s] = [status |-> 200, ok |-> TRUE]

\* the files the pass is to scan: reached through directories that open,
\* not ignored, not excluded, not too large, readable
RECURSIVE scannableFiles(_, _)
scannableFiles(node, dir) ==
  IF ~node.readable THEN {}
  ELSE UNION
    {LET c == node.children[k]
         p == join(dir, c.name)
     IN IF c.name \in ignore THEN {}
        ELSE IF c.type = "dir" THEN scannableFiles(c, p)
        ELSE IF /\ c.type = "file" /\ c.readable
                /\ c.size <= 1024 * 1024
                /\ ~includes(toLowerCase(p), S_prisma)
             THEN {p}
             ELSE {}
     : k \in 1..Len(node.children)}

RECURSIVE hasLockedSubdir(_)
hasLockedSubdir(node) ==
  \E k \in 1..Len(node.children) :
    LET c == node.children[k] IN
    /\ c.type = "dir" /\ c.name \notin ignore
    /\ (~c.readable \/ hasLockedSubdir(c))

\* C8: when a subdirectory cannot be opened during the file pass, the
\* findings and hits of every file outside it are still reported.
C8_LockedSubdirAbsorbed ==
  \A s \in Scans :
    (StageRun(s, "filePass") /\ fs.readable /\ hasLockedSubdir(fs)) =>
      \A p \in scannableFiles(fs, targetDir) :
        LET text == fsLookup(fs, targetDir, p).lines IN
        /\ scanTextForSecrets(text, p) # <<>> => SecretsFrom(s, p) # {}
        /\ scanTextForPromptKeywords(text, p) # <<>> => HitsFrom(s, p) # {}

\* C9: no stage of a scan changes the files and directories under the
\* target directory.
C9_ScanLeavesTreeUnchanged == [][fs' = fs]_vars

\* C10: two consecutive scans of one snapshot, with the same request and
\* the same behaviour of the extractor process, return the same structural
\* artifacts, lexical hits, secret findings and file tree, in the same
\* order, whatever order the directories are listed in.
C10_ConsecutiveScansAgree ==
  (/\ Answered(1) /\ Answered(2)
   /\ req[1] = req[2]
   /\ ExtractorOutcome(1) = ExtractorOutcome(2)) =>
     /\ pythonPrompts[1] = pythonPrompts[2]
     /\ promptKeywordHits[1] = promptKeywordHits[2]
     /\ secretFindings[1] = secretFindings[2]
     /\ fileTree[1] = fileTree[2]

\* ------------------------------------------------------------------------
\* listAllFiles and buildFileTree on the same directory, with the budgets
\* POST hands them (route.ts 201, 232): nothing is truncated
\* ------------------------------------------------------------------------
\* the paths of the file nodes of a tree
RECURSIVE treeFiles(_)
treeFiles(tree) ==
  IF tree.type = "file" THEN {tree.path}
  ELSE UNION {treeFiles(tree.children[k]) : k \in 1..Len(tree.children)}

\* await listAllFiles(wRoot, 3000); await buildFileTree(wRoot, {maxDepth: 8,
\* maxNodes: 5000}), the directory listed in the same order for both
CallBothWalkers ==
  /\ walkerCall.op = "none"
  /\ \E listing \in fsListings(wFs) :
       LET r == listAllFiles(listing, wRoot, MaxFilesListed) IN
       walkerCall' = [op |-> "both", budget |-> MaxFilesListed,
                      maxDepth |-> DisplayTreeDepth, thrown |-> r.thrown,
                      list |-> r.out,
                      tree |-> buildFileTree(listing, wRoot, DisplayTreeDepth,
                                             DisplayTreeNodes)]
  /\ UNCHANGED <<outerVars, wFs, scanVars>>

SpecIgnore == WalkInit /\ [][CallBothWalkers]_vars

\* C11: with budgets that truncate nothing, a file path is returned by
\* listAllFiles exactly when it is a file node of the tree returned by
\* buildFileTree.
C11_SameIgnoreRules ==
  (walkerCall.op = "both" /\ ~walkerCall.thrown) =>
    {walkerCall.list[k] : k \in 1..Len(walkerCall.list)}
      = treeFiles(walkerCall.tree)


\* ------------------------------------------------------------------------
\* The secret scanner on its own: scanTextForSecrets applied to bounded
\* texts.  The text is held in wFs, the call in walkerCall, the result in
\* the findings of scan 1.
\* ------------------------------------------------------------------------
\* longest text, in lines
MaxLines == 3

S_t == <<"t">>
scanPath == join(wRoot, S_t)

\* the texts of at most MaxLines lines of a pool
TextsOf(pool) == UNION {[1..n -> pool] : n \in 0..MaxLines}

SecretLinePool ==
  {<<K_openai>>,
   <<"key", "=", K_openai>>,
   <<"Authorization:", K_bearer>>,
   <<"Authorization:", "Bearer", K_openai>>,
   <<"u", "=", K_url>>,
   <<K_openai, K_openai>>,
   <<"x">>,
   <<>>}

TextFile(text) == FileNode(S_t, 1, TRUE, text, <<>>)

SecretsInit ==
  /\ wFs \in {TextFile(t) : t \in TextsOf(SecretLinePool)}
  /\ walkerCall = NoCall
  /\ fs = EmptyDir
  /\ apiKey = TRUE
  /\ ScanIdle

CallScanTextForSecrets ==
  /\ walkerCall.op = "none"
  /\ walkerCall' = [walkerCall EXCEPT !.op = "scanTextForSecrets"]
  /\ secretFindings' =
       [secretFindings EXCEPT ![1] = scanTextForSecrets(wFs.lines, scanPath)]
  /\ UNCHANGED <<outerVars, wFs, fs, apiKey, pc, req, pythonPrompts, promptKeywordHits,
                 modelAnalysis, fileTree, response, log>>

SpecSecrets == SecretsInit /\ [][CallScanTextForSecrets]_vars

lineText(i) == joinLexemes(wFs.lines[i])
findingsOf(s) == {secretFindings[s][k] : k \in 1..Len(secretFindings[s])}
matchedInFull(str) ==
  \E name \in {"openai_key", "bearer_token", "url_private"} :
    patternMatches(name, str, 1) = Len(str) + 1

\* C13 as stated: every finding's line is the 1-based index of the line the
\* token is on, its match is the substring a pattern matched on that line,
\* and the match is never the whole line.
C13_MatchNeverWholeLine ==
  walkerCall.op = "scanTextForSecrets" =>
    \A f \in findingsOf(1) :
      /\ f.line \in 1..Len(wFs.lines)
      /\ includes(lineText(f.line), f.match)
      /\ matchedInFull(f.match)
      /\ f.match # lineText(f.line)

\* C13 amended: every finding's line is the 1-based index of the line the
\* token is on and its match is the substring a pattern matched on that
\* line; the match is the whole line only when a pattern matches the whole
\* line.
C13_MatchIsMatchedSubstring ==
  walkerCall.op = "scanTextForSecrets" =>
    \A f \in findingsOf(1) :
      /\ f.line \in 1..Len(wFs.lines)
      /\ f.filePath = scanPath
      /\ includes(lineText(f.line), f.match)
      /\ matchedInFull(f.match)
      /\ (f.match = lineText(f.line) => matchedInFull(lineText(f.line)))

\* a token inside a longer second line, nothing on the first
C13_Witness ==
  /\ walkerCall.op = "scanTextForSecrets"
  /\ Len(wFs.lines) >= 2
  /\ wFs.lines[1] = <<"x">>
  /\ \E f \in findingsOf(1) :
       f.line = 2 /\ f.match = K_openai /\ f.match # lineText(2)

\* the start positions at which a pattern matches a string
occurrences(name, str) ==
  {i \in 1..Len(str) : patternMatches(name, str, i) # 0}
tokenLines(name) ==
  {i \in 1..Len(wFs.lines) : occurrences(name, lineText(i)) # {}}
tokenOn(name, i) ==
  LET str == lineText(i)
      at == least(occurrences(name, str))
  IN SubSeq(str, at, patternMatches(name, str, at) - 1)
oneTokenOfEachOnItsOwnLine ==
  /\ \A name \in {"openai_key", "bearer_token", "url_private"} :
       /\ Cardinality(tokenLines(name)) = 1
       /\ \A i \in tokenLines(name) :
            Cardinality(occurrences(name, lineText(i))) = 1
  /\ \A n1, n2 \in {"openai_key", "bearer_token", "url_private"} :
       n1 # n2 => tokenLines(n1) \cap tokenLines(n2) = {}

\* C14: a text holding exactly one token of each pattern, each on a line of
\* its own, yields exactly as many findings as there are patterns, each on
\* its token's line with the token as match, in order of line.
C14_OneFindingPerPattern ==
  (walkerCall.op = "scanTextForSecrets" /\ oneTokenOfEachOnItsOwnLine) =>
    /\ Len(secretFindings[1]) = 3
    /\ \A name \in {"openai_key", "bearer_token", "url_private"} :
         \A i \in tokenLines(name) :
           Cardinality({k \in 1..Len(secretFindings[1]) :
                          /\ secretFindings[1][k].line = i
                          /\ secretFindings[1][k].match = tokenOn(name, i)}) = 1
    /\ \A k \in 1..(Len(secretFindings[1]) - 1) :
         secretFindings[1][k].line < secretFindings[1][k + 1].line

C14_Witness ==
  /\ walkerCall.op = "scanTextForSecrets"
  /\ oneTokenOfEachOnItsOwnLine
  /\ wFs.lines[1] = <<"u", "=", K_url>>
  /\ Len(secretFindings[1]) = 3


\* ------------------------------------------------------------------------
\* The keyword scanner on its own: scanTextForPromptKeywords applied to
\* bounded texts, the result in the hits of scan 1.
\* ------------------------------------------------------------------------
L_roleSystem == <<"role", "system">>
L_blockYouAre == <<"system", ":", Backtick, "You", "are", "helpful", Backtick>>
L_blockOpen == <<"system", ":", Backtick, "Be", "kind">>
L_blockClose == <<"done", Backtick>>
L_blockEmpty == <<"system", ":", Backtick, Backtick>>
L_several == <<"messages", "role", "system", "prompt">>
L_identifier == <<"const", "system_prompt", "=">>
L_python == <<"role", "=", "'system'", ",", "content", "=", "\"\"\"", "Hi", "\"\"\"">>

KeywordLinePool ==
  {L_roleSystem, L_blockYouAre, L_blockOpen, L_blockClose, L_blockEmpty,
   L_several, L_identifier, L_python, <<"x">>, <<>>}

KeywordsInit ==
  /\ wFs \in {TextFile(t) : t \in TextsOf(KeywordLinePool)}
  /\ walkerCall = NoCall
  /\ fs = EmptyDir
  /\ apiKey = TRUE
  /\ ScanIdle

CallScanTextForPromptKeywords ==
  /\ walkerCall.op = "none"
  /\ walkerCall' = [walkerCall EXCEPT !.op = "scanTextForPromptKeywords"]
  /\ promptKeywordHits' =
       [promptKeywordHits EXCEPT
          ![1] = scanTextForPromptKeywords(wFs.lines, scanPath)]
  /\ UNCHANGED <<outerVars, wFs, fs, apiKey, pc, req, pythonPrompts, secretFindings,
                 modelAnalysis, fileTree, response, log>>

SpecKeywords == KeywordsInit /\ [][CallScanTextForPromptKeywords]_vars

keywordsScanned == walkerCall.op = "scanTextForPromptKeywords"
hitsAt(s) == 1..Len(promptKeywordHits[s])
lineLabelSet == {keywordLabels[k] : k \in 1..Len(keywordLabels)}
blockLabelSet == {blockPatterns[k].label : k \in 1..Len(blockPatterns)}
\* the positions, in the hits of scan 1, of the line-heuristic hits of line i
lineHitsOf(i) ==
  {k \in hitsAt(1) : /\ promptKeywordHits[1][k].line = i
                     /\ promptKeywordHits[1][k].matchLabel \in lineLabelSet}
holding(i) == {k \in 1..Len(keywordLabels) : keywordTest(keywordLabels[k], wFs.lines[i])}

\* C15: the line heuristics emit at most one hit per line; when a predicate
\* holds for the line the hit carries the label of the first that holds, in
\* declaration order; when none holds there is no line hit.
C15_FirstPredicateWins ==
  keywordsScanned =>
    \A i \in 1..Len(wFs.lines) :
      /\ Cardinality(lineHitsOf(i)) <= 1
      /\ holding(i) = {} => lineHitsOf(i) = {}
      /\ holding(i) # {} =>
           \E k \in lineHitsOf(i) :
             promptKeywordHits[1][k].matchLabel = keywordLabels[least(holding(i))]

\* a second line on which predicates 1, 4 and 6 hold, reported as role_system
C15_Witness ==
  /\ keywordsScanned
  /\ Len(wFs.lines) >= 2
  /\ wFs.lines[2] = L_several
  /\ Cardinality(holding(2)) >= 3
  /\ \E k \in lineHitsOf(2) : promptKeywordHits[1][k].matchLabel = "role_system"

\* C16: a line for which a block extractor emitted a hit carries no
\* line-heuristic hit, and no two hits of a scan share label, line and the
\* first 50 characters of the snippet.
C16_BlockHitsTakePriority ==
  keywordsScanned =>
    /\ \A k \in hitsAt(1) :
         promptKeywordHits[1][k].matchLabel \in blockLabelSet =>
           lineHitsOf(promptKeywordHits[1][k].line) = {}
    /\ \A j, k \in hitsAt(1) :
         (/\ promptKeywordHits[1][j].matchLabel = promptKeywordHits[1][k].matchLabel
          /\ promptKeywordHits[1][j].line = promptKeywordHits[1][k].line
          /\ sliceString(promptKeywordHits[1][j].snippet, 50)
               = sliceString(promptKeywordHits[1][k].snippet, 50)) => j = k

\* where the text's first `system : <backtick>` opens and where that block
\* closes, as positions in the text; 0 when there is none
blockOpens ==
  LET stream == lexemeStream(wFs.lines) IN
  {p \in 1..(Len(stream) - 2) :
     /\ stream[p] = "system" /\ stream[p + 1] = ":" /\ stream[p + 2] = Backtick
     /\ \E c \in (p + 3)..Len(stream) : stream[c] = Backtick}
blockContent ==
  LET stream == lexemeStream(wFs.lines)
      p == least(blockOpens)
      c == least({c \in (p + 3)..Len(stream) : stream[c] = Backtick})
  IN joinLexemes(SubSeq(stream, p + 3, c - 1))
lineFeedsBefore(p) ==
  LET stream == lexemeStream(wFs.lines) IN
  Cardinality({k \in 1..(p - 1) : stream[k] = NL})
roleSystemLines == {i \in 1..Len(wFs.lines) : wFs.lines[i] = L_roleSystem}
threeLines(i) ==
  joinLexemes((IF i > 1 THEN wFs.lines[i - 1] ELSE <<>>) \o wFs.lines[i]
              \o (IF i < Len(wFs.lines) THEN wFs.lines[i + 1] ELSE <<>>))

\* C17: for a text with a backtick-delimited system block and, on another
\* line, a line holding only role and system, the scan returns a block hit
\* whose line is 1 plus the line feeds before the block's start and whose
\* snippet is the delimited content, and a line hit whose snippet is the
\* previous, matching and next lines joined and whitespace-normalized.
C17_BlockHitAndLineHit ==
  (keywordsScanned /\ blockOpens # {} /\ roleSystemLines # {}) =>
    /\ \E k \in hitsAt(1) :
         /\ promptKeywordHits[1][k].matchLabel = "js_ts_system_template_literal"
         /\ promptKeywordHits[1][k].line = 1 + lineFeedsBefore(least(blockOpens))
         /\ promptKeywordHits[1][k].snippet = blockContent
    /\ \A i \in roleSystemLines :
         \E k \in hitsAt(1) :
           /\ promptKeywordHits[1][k].matchLabel = "role_system"
           /\ promptKeywordHits[1][k].line = i
           /\ promptKeywordHits[1][k].snippet = threeLines(i)

\* a two-line block that opens on line 2, after the role system line
C17_Witness ==
  /\ keywordsScanned
  /\ wFs.lines = <<L_roleSystem, L_blockOpen, L_blockClose>>
  /\ blockOpens # {} /\ roleSystemLines = {1}
  /\ Len(promptKeywordHits[1]) >= 2

\* C20: every structural artifact has a non-empty text and a line of at
\* least 1, and every lexical hit has a non-empty snippet and a line of at
\* least 1.
C20_NonEmptyTextAndLine ==
  /\ \A k \in 1..Len(pythonPrompts[1]) :
       pythonPrompts[1][k].text # "" /\ pythonPrompts[1][k].line >= 1
  /\ \A k \in hitsAt(1) :
       promptKeywordHits[1][k].snippet # "" /\ promptKeywordHits[1][k].line >= 1


\* ------------------------------------------------------------------------
\* The structural extractor on its own: extract_from_file applied to
\* bounded Python files, the result in the artifacts of scan 1.
\* ------------------------------------------------------------------------
\* most keyword arguments of a call
MaxKeywords == 2

KeywordPool ==
  {Keyword("system", Str("S")), Keyword("user", Str("U")),
   Keyword("prompt", Str("P")), Keyword("tools_prompt", Str("T")),
   Keyword("model", Str("gpt")), Keyword("system_prompt", Str("")),
   Keyword("input", JoinedStr(<<Str("Hi "), FormattedValue>>)),
   Keyword("temperature", Num), Keyword("", Str("X"))}

\* Python rejects a call that repeats a keyword name
KeywordLists ==
  {kws \in UNION {[1..n -> KeywordPool] : n \in 0..MaxKeywords} :
     \A i, j \in 1..Len(kws) : (i # j /\ kws[i].arg # "") => kws[i].arg # kws[j].arg}

FuncPool ==
  {[id |-> "client", attrs |-> <<"chat", "completions", "create">>],
   [id |-> "self", attrs |-> <<"llm", "invoke">>],
   [id |-> "", attrs |-> <<"chat", "completions", "create">>],
   [id |-> "print", attrs |-> <<>>]}

ArgsPool ==
  {<<>>,
   <<Str("hi")>>,
   <<Dict(<<Str("role"), Str("content")>>, <<Str("system"), Str("DS")>>)>>,
   <<Dict(<<Str("content")>>, <<Str("DC")>>)>>,
   <<List(<<Dict(<<Str("role"), Str("content")>>, <<Str("developer"), Str("DD")>>),
            Dict(<<Str("role"), Str("content")>>, <<Name, Str("DN")>>)>>)>>,
   <<Call("llm", <<"invoke">>, <<>>, <<Keyword("prompt", Str("N"))>>, 2)>>}

\* where the call stands in the file
Placements(call) ==
  {<<call>>,
   <<FunctionDef("ask", <<call>>)>>,
   <<FunctionDef("outer", <<FunctionDef("inner", <<call>>)>>), A_user>>,
   <<call, Node("SyntaxError")>>}

VisitorInit ==
  /\ \E f \in FuncPool, args \in ArgsPool, kws \in KeywordLists :
       \E py \in Placements(Call(f.id, f.attrs, args, kws, 5)) :
         wFs = FileNode(S_mpy, 1, TRUE, <<>>, py)
  /\ walkerCall = NoCall
  /\ fs = EmptyDir
  /\ apiKey = TRUE
  /\ ScanIdle

pyPath == join(wRoot, S_mpy)

CallExtractFromFile ==
  /\ walkerCall.op = "none"
  /\ walkerCall' = [walkerCall EXCEPT !.op = "extract_from_file"]
  /\ pythonPrompts' = [pythonPrompts EXCEPT ![1] = extract_from_file(wFs, pyPath)]
  /\ UNCHANGED <<outerVars, wFs, fs, apiKey, pc, req, secretFindings, promptKeywordHits,
                 modelAnalysis, fileTree, response, log>>

SpecVisitor == VisitorInit /\ [][CallExtractFromFile]_vars

\* the calls of a tree, each with the name of the innermost def around it
RECURSIVE callsUnder(_, _)
callsUnder(node, fn) ==
  LET inner == IF node.kind = "FunctionDef" THEN node.value ELSE fn
      below == UNION ({callsUnder(node.items[j], inner) : j \in 1..Len(node.items)}
                      \cup {callsUnder(node.keywords[j].value, fn) :
                              j \in 1..Len(node.keywords)})
  IN IF node.kind = "Call" THEN {[call |-> node, fn |-> fn]} \cup below ELSE below
callsOfFile == UNION {callsUnder(wFs.py[j], None) : j \in 1..Len(wFs.py)}
parses == \A j \in 1..Len(wFs.py) : wFs.py[j].kind # "SyntaxError"
extracted == walkerCall.op = "extract_from_file"
literal(node) == node.kind = "Constant" /\ node.str /\ node.value # ""
roleOfKeyword(name) ==
  CASE name \in {"system", "system_prompt"} -> "system"
    [] name \in {"user", "prompt", "input"} -> "user"
    [] name \in {"tool", "tools_prompt"} -> "tool"
    [] OTHER -> "unknown"
timesEmitted(art) ==
  Cardinality({k \in 1..Len(pythonPrompts[1]) : pythonPrompts[1][k] = art})

\* C18: for a recognized LLM call, every named keyword argument whose value
\* is a non-empty string literal yields exactly one artifact, its role given by
\* the keyword name alone, carrying the enclosing function name and the
\* dotted call signature; a file that is one call with only such keyword
\* arguments yields nothing else.
C18_RoleFromKeywordName ==
  (extracted /\ parses) =>
    /\ \A c \in callsOfFile :
         isLlmCallee(callee_segments(c.call.func)) =>
           \A j \in 1..Len(c.call.keywords) :
             (c.call.keywords[j].arg # "" /\ literal(c.call.keywords[j].value)) =>
               timesEmitted([role |-> roleOfKeyword(c.call.keywords[j].arg),
                             text |-> c.call.keywords[j].value.value,
                             filePath |-> pyPath,
                             line |-> c.call.lineno,
                             functionName |-> c.fn,
                             callSignature |-> dotJoin(callee_segments(c.call.func))]) = 1
    /\ (/\ Cardinality(callsOfFile) = 1
        /\ \A c \in callsOfFile :
             /\ c.call.items = <<>>
             /\ \A j \in 1..Len(c.call.keywords) : literal(c.call.keywords[j].value))
       => \A c \in callsOfFile :
            Len(pythonPrompts[1]) =
              IF isLlmCallee(callee_segments(c.call.func))
              THEN Len(c.call.keywords) ELSE 0

\* system="S", user="U" inside def ask
C18_Witness ==
  /\ extracted
  /\ Len(wFs.py) = 1 /\ wFs.py[1].kind = "FunctionDef"
  /\ Len(pythonPrompts[1]) = 2
  /\ pythonPrompts[1][1].role = "system" /\ pythonPrompts[1][1].text = "S"
  /\ pythonPrompts[1][2].role = "user" /\ pythonPrompts[1][2].text = "U"
  /\ \A k \in 1..2 :
       /\ pythonPrompts[1][k].functionName = "ask"
       /\ pythonPrompts[1][k].callSignature = "client.chat.completions.create"

\* C19: the role of every artifact of the structural extractor is one of
\* system, user, assistant, tool, unknown.
C19_RoleIsResolved ==
  \A k \in 1..Len(pythonPrompts[1]) :
    pythonPrompts[1][k].role \in {"system", "user", "assistant", "tool", "unknown"}


\* ------------------------------------------------------------------------
\* Two scans of one directory at the same time.  The structural stage is
\* taken one awaited operation at a time: fs.mkdir, the open and the write
\* of fs.writeFile (the file is opened with flag "w", which empties it, and
\* written afterwards), and the run of python3 on the script it finds.
\* ------------------------------------------------------------------------
\* the script file as fs.writeFile leaves it between its open and its write
emptyScript == FileNode(S_script, 0, TRUE, <<>>, <<>>)

\* the open of fs.writeFile(scriptPath, script) (pythonExtractor.ts 168)
openScript(root) ==
  [root EXCEPT !.children =
     [k \in 1..Len(@) |->
        IF @[k].name = S_tmp_extractor
        THEN [@[k] EXCEPT !.children = <<emptyScript>>]
        ELSE @[k]]]

\* the script python3 finds at scriptPath is the one ensurePythonScript wrote
scriptIsWhole(root) ==
  \E k \in 1..Len(root.children) :
    /\ root.children[k].name = S_tmp_extractor
    /\ root.children[k].children = <<scriptFile>>

ConcurrentInputs ==
  {DirNode(<<"r">>, TRUE, <<F_mpy>>), DirNode(<<"r">>, TRUE, <<F_a, F_mpy>>)}

ConcurrentInit ==
  /\ fs \in ConcurrentInputs
  /\ apiKey \in BOOLEAN
  /\ ScanIdle
  /\ WalkerIdle

\* await fs.mkdir(tempDir, { recursive: true }) (pythonExtractor.ts 167)
EnsureMkdir(s) ==
  /\ pc[s] = "structural"
  /\ fs' = mkdirTempDir(fs)
  /\ pc' = [pc EXCEPT ![s] = "ensureOpen"]
  /\ UNCHANGED <<apiKey, req, pythonPrompts, secretFindings, promptKeywordHits,
                 modelAnalysis, fileTree, response, log, walkerVars>>

\* fs.writeFile(scriptPath, script, "utf8") (pythonExtractor.ts 168): the open
EnsureOpen(s) ==
  /\ pc[s] = "ensureOpen"
  /\ fs' = openScript(fs)
  /\ pc' = [pc EXCEPT ![s] = "ensureWrite"]
  /\ UNCHANGED <<apiKey, req, pythonPrompts, secretFindings, promptKeywordHits,
                 modelAnalysis, fileTree, response, log, walkerVars>>

\* fs.writeFile(scriptPath, script, "utf8") (pythonExtractor.ts 168): the write
EnsureWrite(s) ==
  /\ pc[s] = "ensureWrite"
  /\ fs' = writeScript(fs)
  /\ pc' = [pc EXCEPT ![s] = "spawn"]
  /\ UNCHANGED <<apiKey, req, pythonPrompts, secretFindings, promptKeywordHits,
                 modelAnalysis, fileTree, response, log, walkerVars>>

\* spawn("python3", [script, projectRoot]) up to the close event
\* (pythonExtractor.ts 175-191): python3 runs the file it finds; an empty
\* file exits with code 0 and prints nothing, and JSON.parse("") throws
SpawnExtractor(s) ==
  /\ pc[s] = "spawn"
  /\ LET outcome == IF scriptIsWhole(fs) THEN "ok" ELSE "unparsable_output" IN
     /\ \E r \in {extractPythonPrompts(listing, "ok", outcome) :
                    listing \in fsListings(fs)} :
          pythonPrompts' =
            [pythonPrompts EXCEPT ![s] =
               IF r.settled = "resolved" THEN r.value ELSE <<>>]
     /\ log' = [log EXCEPT ![s] = Append(@, LogEntry("structural", outcome, NoTree))]
  /\ pc' = [pc EXCEPT ![s] = nextStage("structural")]
  /\ UNCHANGED <<fs, apiKey, req, secretFindings, promptKeywordHits,
                 modelAnalysis, fileTree, response, walkerVars>>

ConcurrentStep(s) ==
  \/ ValidateTarget(s)
  \/ EnsureMkdir(s)
  \/ EnsureOpen(s)
  \/ EnsureWrite(s)
  \/ SpawnExtractor(s)
  \/ FilePassStage(s)
  \/ NarrativeStage(s)
  \/ DisplayTreeStage(s)
  \/ Respond(s)

ConcurrentNext == \E s \in Scans : ConcurrentStep(s)

SpecConcurrent == ConcurrentInit /\ [][ConcurrentNext]_vars

\* the directory as a scan running alone sees it after its structural stage
aloneFs == writeScript(mkdirTempDir(fs))

\* C12: with the steps of two scans of one directory interleaved in any
\* order, each scan returns a result it could return running alone: the
\* artifacts, the findings, the hits and the tree of a single scan of the
\* directory.
C12_ConcurrentScansIsolated ==
  \A s \in Scans :
    Answered(s) =>
      /\ pythonPrompts[s] \in {walk_dir(l, targetDir) : l \in fsListings(aloneFs)}
      /\ \E r \in {filePass(l) : l \in fsListings(aloneFs)} :
           /\ secretFindings[s] = r.secretFindings
           /\ promptKeywordHits[s] = r.promptKeywordHits
      /\ fileTree[s] \in {buildFileTree(l, targetDir, DisplayTreeDepth,
                                        DisplayTreeNodes) :
                            l \in fsListings(aloneFs)}


\* ------------------------------------------------------------------------
\* The end-to-end fixture: a Python file with a recognized chat call that
\* carries the message {role: system, content: Be concise.}, next to a
\* file of another language with a system_prompt line.
\* ------------------------------------------------------------------------
M_system ==
  Dict(<<Str("role"), Str("content")>>, <<Str("system"), Str("Be concise.")>>)
T_chat == <<<<"def", "ask():">>, <<>>, <<"client.chat.completions.create(">>>>
\* client.chat.completions.create([{...}]) on line 3 of def ask
F_chatPositional ==
  FileNode(S_mpy, 10, TRUE, T_chat,
    <<FunctionDef("ask",
        <<Call("client", <<"chat", "completions", "create">>,
               <<List(<<M_system>>)>>, <<>>, 3)>>)>>)
\* client.chat.completions.create(messages=[{...}]) on line 3 of def ask
F_chatKeyword ==
  FileNode(S_mpy, 10, TRUE, T_chat,
    <<FunctionDef("ask",
        <<Call("client", <<"chat", "completions", "create">>, <<>>,
               <<Keyword("messages", List(<<M_system>>))>>, 3)>>)>>)
F_const ==
  FileNode(S_c, 10, TRUE, <<<<"const", "system_prompt", "=", "\"...\"">>>>, <<>>)

FixtureInputs ==
  {DirNode(<<"r">>, TRUE, <<F_chatPositional, F_const>>),
   DirNode(<<"r">>, TRUE, <<F_chatKeyword, F_const>>)}

FixtureInit ==
  /\ fs \in FixtureInputs
  /\ apiKey \in BOOLEAN
  /\ ScanIdle
  /\ WalkerIdle

SpecFixture == FixtureInit /\ [][Next]_vars

\* C21: a scan of the fixture whose extractor succeeds returns exactly one
\* structural artifact, with role system and text Be concise., and a
\* lexical hit labeled system_prompt_identifier on line 1 of the second
\* file, whether the message is a positional or a messages= argument.
C21_EndToEndFixture ==
  \A s \in Scans :
    (Answered(s) /\ ExtractorOutcome(s) = "ok") =>
      /\ Len(pythonPrompts[s]) = 1
      /\ pythonPrompts[s][1].role = "system"
      /\ pythonPrompts[s][1].text = "Be concise."
      /\ \E k \in 1..Len(promptKeywordHits[s]) :
           /\ promptKeywordHits[s][k].matchLabel = "system_prompt_identifier"
           /\ promptKeywordHits[s][k].filePath = join(targetDir, S_c)
           /\ promptKeywordHits[s][k].line = 1


\* ------------------------------------------------------------------------
\* The Narrative Synthesizer: one scan with the reply of the
\* text-generation service fixed for the run.
\* ------------------------------------------------------------------------
NarrativeInit ==
  /\ fs \in FixtureInputs
  /\ apiKey \in BOOLEAN
  /\ serviceReply \in Replies \cup {R_empty_summary}
  /\ ScanAtRest /\ LimiterIdle /\ ReposIdle /\ ReportedIdle
  /\ WalkerIdle

SpecNarrative == NarrativeInit /\ [][Next]_vars

\* the lexemes of the reply from its first "{" to its last "}"
braceSpan(reply) ==
  LET opens == {i \in 1..Len(reply.content) : reply.content[i] = "{"}
      closes == {i \in 1..Len(reply.content) : reply.content[i] = "}"}
  IN IF opens = {} \/ closes = {} THEN <<>>
     ELSE SubSeq(reply.content, least(opens), greatest(closes))
\* the span is one JSON object
spanParses(reply) ==
  LET span == braceSpan(reply)
  IN /\ reply.fetch = "ok" /\ reply.body = "json"
     /\ Len(span) >= 2
     /\ \A i \in 2..(Len(span) - 1) : span[i] \notin {"{", "}", "Sure", "null"}
\* the value the object gives to a key: that of the key's last member
lastMember(reply, key) ==
  LET span == braceSpan(reply)
      at == {i \in 1..Len(span) : \E v \in {"s", "", "[]", "1"} :
                                    span[i] = key \o ":" \o v}
  IN IF at = {} THEN "absent" ELSE span[greatest(at)]

\* C22: without a credential the synthesizer returns null and makes no
\* outbound call; and the narrative of a scan result is non-null only if
\* synthesis was requested, a credential is configured and the reply parsed
\* with a non-empty summary and an array files.
C22_NullWithoutCredential ==
  \A s \in Scans :
    /\ (StageRun(s, "narrative") /\ ~apiKey) =>
         /\ log[s][StageIndex(s, "narrative")].outcome = "no_call"
         /\ modelAnalysis[s] = NullAnalysis
    /\ ~modelAnalysis[s].isNull =>
         /\ req[s].useModel
         /\ apiKey
         /\ spanParses(serviceReply)
         /\ lastMember(serviceReply, "summary") = "summary:s"
         /\ lastMember(serviceReply, "files") = "files:[]"

C22_Witness ==
  /\ Answered(1) /\ req[1].useModel /\ ~apiKey
  /\ serviceReply = R_valid
  /\ modelAnalysis[1] = NullAnalysis

\* ------------------------------------------------------------------------
\* analyzePromptContext on its own, over every reply of bounded length.
\* ------------------------------------------------------------------------
MaxContent == 5
ContentTokens ==
  {"{", "}", "summary:s", "summary:", "files:[]", "files:1", "Sure", "null"}
ContentsUpTo(n) == UNION {[1..k -> ContentTokens] : k \in 0..n}
ReplyInputs ==
  {R_network_error, R_non_json_body}
    \cup {Reply("ok", "json", c) : c \in ContentsUpTo(MaxContent)}
NoInput == [hits |-> <<>>, python |-> <<>>, fileTree |-> NoTree]

AnalyzeInit ==
  /\ apiKey \in BOOLEAN
  /\ serviceReply \in ReplyInputs
  /\ fs = EmptyDir
  /\ ScanAtRest /\ LimiterIdle /\ ReposIdle /\ ReportedIdle
  /\ WalkerIdle

CallAnalyzePromptContext ==
  /\ walkerCall.op = "none"
  /\ walkerCall' = [walkerCall EXCEPT !.op = "analyzePromptContext"]
  /\ modelAnalysis' =
       [modelAnalysis EXCEPT ![1] =
          analyzePromptContext(NoInput, apiKey, serviceReply)]
  /\ UNCHANGED <<outerVars, wFs, fs, apiKey, pc, req, pythonPrompts,
                 secretFindings, promptKeywordHits, fileTree, response, log>>

SpecAnalyze == AnalyzeInit /\ [][CallAnalyzePromptContext]_vars

analyzed == walkerCall.op = "analyzePromptContext"
hasBraces(reply) ==
  \E i, j \in 1..Len(reply.content) :
    reply.content[i] = "{" /\ reply.content[j] = "}"

\* C23: whatever the outbound call yields (network error, non-JSON body, no
\* assistant text, text without braces, braces around invalid JSON, JSON
\* without summary or with non-array files) the result is null; the
\* parsed object is returned only when the span from the first "{" to the
\* last "}" parses, has summary present and files an array.
C23_FailuresYieldNull ==
  analyzed =>
    /\ (\/ serviceReply.fetch = "network_error"
        \/ serviceReply.body = "non_json"
        \/ serviceReply.content = <<>>
        \/ ~hasBraces(serviceReply)
        \/ ~spanParses(serviceReply)
        \/ lastMember(serviceReply, "summary") = "absent"
        \/ lastMember(serviceReply, "files") # "files:[]")
         => modelAnalysis[1] = NullAnalysis
    /\ ~modelAnalysis[1].isNull =>
         /\ spanParses(serviceReply)
         /\ lastMember(serviceReply, "summary") # "absent"
         /\ lastMember(serviceReply, "files") = "files:[]"
         /\ modelAnalysis[1].summary = "s"

C23_Witness ==
  /\ analyzed /\ apiKey
  /\ serviceReply.content = <<"Sure", "{", "summary:s", "files:[]">> \o <<"}">>
  /\ ~modelAnalysis[1].isNull


\* ------------------------------------------------------------------------
\* The rate limiter of the scan endpoint (part_003 50-73): checkRateLimit
\* called for the client IPs at non-decreasing times.
\* ------------------------------------------------------------------------
RATE_LIMIT_WINDOW_MS == 60000
RATE_LIMIT_MAX == 4

MaxCalls == 7
\* the time that passes between two calls, in ms
Deltas == {0, 1, 59999}

\* Math.max(1, Math.ceil(ms / 1000)) for ms >= 0
retryAfter(ms) ==
  LET ceil == (ms + 999) \div 1000
  IN IF ceil < 1 THEN 1 ELSE ceil

\* a rejected call counted like an accepted one
checkRateLimit_countsRejected(ip, t, table) ==
  LET record == table[ip]
  IN IF record = NoRecord \/ t > record.resetAtMs
     THEN [table |-> [table EXCEPT ![ip] =
                        [count |-> 1, resetAtMs |-> t + RATE_LIMIT_WINDOW_MS]],
           ok |-> TRUE, retryAfterSeconds |-> 0]
     ELSE [table |-> [table EXCEPT ![ip].count = @ + 1],
           ok |-> record.count < RATE_LIMIT_MAX,
           retryAfterSeconds |->
             IF record.count >= RATE_LIMIT_MAX
             THEN retryAfter(record.resetAtMs - t) ELSE 0]

\* part_003 57-73: the table after the call at time t, and its answer
checkRateLimit(ip, t, table) ==
  LET record == table[ip]
  IN IF record = NoRecord \/ t > record.resetAtMs
     THEN [table |-> [table EXCEPT ![ip] =
                        [count |-> 1, resetAtMs |-> t + RATE_LIMIT_WINDOW_MS]],
           ok |-> TRUE, retryAfterSeconds |-> 0]
     ELSE IF record.count >= RATE_LIMIT_MAX
     THEN [table |-> table, ok |-> FALSE,
           retryAfterSeconds |-> retryAfter(record.resetAtMs - t)]
     ELSE [table |-> [table EXCEPT ![ip].count = @ + 1],
           ok |-> TRUE, retryAfterSeconds |-> 0]

RateInit ==
  /\ fs = EmptyDir
  /\ apiKey = TRUE
  /\ ScanIdle
  /\ WalkerIdle

CallCheckRateLimit ==
  /\ Len(calls) < MaxCalls
  /\ \E ip \in Ips, dt \in Deltas :
       LET r == checkRateLimit(ip, now + dt, ipToRecord)
       IN /\ now' = now + dt
          /\ ipToRecord' = r.table
          /\ calls' = Append(calls, [ip |-> ip, at |-> now + dt, ok |-> r.ok,
                                     retryAfterSeconds |-> r.retryAfterSeconds])
  /\ UNCHANGED <<scanVars, wFs, walkerCall, repos, serviceReply, reported>>

SpecRate == RateInit /\ [][CallCheckRateLimit]_vars

\* the accepted calls of ip made in the 60 seconds that start at time t
acceptedFrom(ip, t) ==
  {k \in 1..Len(calls) :
     /\ calls[k].ip = ip /\ calls[k].ok
     /\ calls[k].at >= t /\ calls[k].at < t + 60000}

\* C25: no interval of 60 seconds contains 5 or more accepted calls of the
\* same IP.
C25_FewerThanFivePerMinute ==
  \A ip \in Ips : \A k \in 1..Len(calls) :
    Cardinality(acceptedFrom(ip, calls[k].at)) < 5

\* C27: each stored record has a count from 1 to 4; a rejected call leaves
\* the record of its IP as it was; and a call for one IP changes neither the
\* record of another IP nor the answer another IP would get.
RateStepKeepsRecords ==
  calls' # calls =>
    LET c == calls'[Len(calls')]
    IN /\ \A ip \in Ips :
            ipToRecord'[ip] # NoRecord => ipToRecord'[ip].count \in 1..4
       /\ ~c.ok => ipToRecord'[c.ip] = ipToRecord[c.ip]
       /\ \A other \in Ips \ {c.ip} :
            /\ ipToRecord'[other] = ipToRecord[other]
            /\ checkRateLimit(other, now', ipToRecord').ok
                 = checkRateLimit(other, now', ipToRecord).ok
C27_RecordsBounded == [][RateStepKeepsRecords]_vars

C27_Witness ==
  /\ calls # <<>>
  /\ ~calls[Len(calls)].ok /\ calls[Len(calls)].ip = "ip1"
  /\ ipToRecord["ip1"].count = 4
  /\ ipToRecord["ip2"].count >= 1

\* the next call of calls[k]'s IP after calls[k]; 0 when there is none
nextCallOf(k) ==
  LET later == {j \in (k + 1)..Len(calls) : calls[j].ip = calls[k].ip}
  IN IF later = {} THEN 0 ELSE least(later)

\* C28: after a call rejected at time t with retryAfterSeconds = r, the next
\* call of the same IP is accepted when it is made at t + r * 1000 ms or
\* later.
C28_RetryAfterSuffices ==
  \A k \in 1..Len(calls) :
    (/\ ~calls[k].ok
     /\ nextCallOf(k) # 0
     /\ calls[nextCallOf(k)].at >= calls[k].at + calls[k].retryAfterSeconds * 1000)
      => calls[nextCallOf(k)].ok


\* ------------------------------------------------------------------------
\* The scan endpoint from the arrival of a request: JWT check, rate limit,
\* body validation, then the local directory or the checkout of the
\* repository (route.ts 103-186, part_003 13-47).
\* ------------------------------------------------------------------------
\* a Git URL as its segments: host, owner, repository
U_aliceApp == <<"github.com", "alice", "app">>
U_bobApp == <<"github.com", "bob", "app.git">>
U_aliceLib == <<"github.com", "alice", "lib.git">>
RepoUrls == {U_aliceApp, U_bobApp, U_aliceLib}

\* String.replace(/\.git$/, "")
stripGit(name) ==
  IF Len(name) >= 4 /\ SubSeq(name, Len(name) - 3, Len(name)) = ".git"
  THEN SubSeq(name, 1, Len(name) - 4)
  ELSE name

\* route.ts 161 and part_003 17: repoUrl.split("/").pop()?.replace(...) || "repo"
repoNameOf(url) ==
  LET last == stripGit(url[Len(url)])
  IN IF last = "" THEN "repo" ELSE last

\* the stage after a check of the handler: it falls through to the next
\* check although this one failed
afterCheck_fallsThrough(passed, nextPc) == nextPc
\* the stage after a check of the handler: the handler returns when it failed
afterCheck(passed, nextPc) == IF passed THEN nextPc ELSE "done"

\* route.ts 104-113, auth.ts 8-24
Authenticate(s) ==
  /\ pc[s] = "auth"
  /\ \E jwt \in {"valid", "missing", "invalid", "no_secret"} :
       /\ pc' = [pc EXCEPT ![s] = afterCheck(jwt = "valid", "rateLimit")]
       /\ response' = [response EXCEPT ![s] =
                         IF jwt = "valid" THEN @
                         ELSE [status |-> 401, ok |-> FALSE]]
  /\ UNCHANGED <<fs, apiKey, req, pythonPrompts, secretFindings,
                 promptKeywordHits, modelAnalysis, fileTree, log, walkerVars>>

\* route.ts 115-126
RateLimit(s) ==
  /\ pc[s] = "rateLimit"
  /\ \E ip \in Ips :
       LET rate == checkRateLimit(ip, now, ipToRecord)
       IN /\ ipToRecord' = rate.table
          /\ calls' = Append(calls, [ip |-> ip, at |-> now, ok |-> rate.ok,
                                     retryAfterSeconds |-> rate.retryAfterSeconds])
          /\ pc' = [pc EXCEPT ![s] = afterCheck(rate.ok, "parseBody")]
          /\ response' = [response EXCEPT ![s] =
                            IF rate.ok THEN @
                            ELSE [status |-> 429, ok |-> FALSE]]
  /\ UNCHANGED <<fs, apiKey, req, pythonPrompts, secretFindings,
                 promptKeywordHits, modelAnalysis, fileTree, log, wFs,
                 walkerCall, now, repos, serviceReply, reported>>

\* route.ts 128-139 and 159-162: the body is rejected, names a local path,
\* or names a repository
ParseBody(s) ==
  /\ pc[s] = "parseBody"
  /\ \/ /\ pc' = [pc EXCEPT ![s] = afterCheck(FALSE, "idle")]
        /\ response' = [response EXCEPT ![s] = [status |-> 400, ok |-> FALSE]]
        /\ UNCHANGED req
     \/ /\ pc' = [pc EXCEPT ![s] = afterCheck(TRUE, "idle")]
        /\ UNCHANGED <<req, response>>
     \/ \E url \in RepoUrls, useModel \in BOOLEAN :
          /\ req' = [req EXCEPT ![s] = [localPath |-> "checkout",
                                        useModel |-> useModel, repoUrl |-> url]]
          /\ pc' = [pc EXCEPT ![s] = afterCheck(TRUE, "clone")]
          /\ UNCHANGED response
  /\ UNCHANGED <<fs, apiKey, pythonPrompts, secretFindings,
                 promptKeywordHits, modelAnalysis, fileTree, log, walkerVars>>

CloneEntry(outcome, origin) ==
  [stage |-> "clone", outcome |-> outcome, tree |-> NoTree, origin |-> origin]

\* part_003 40-41: the target is looked for and, when it is missing, the
\* clone is launched in the same turn; the directory only appears once git
\* has created it
CloneStart(s) ==
  /\ pc[s] = "clone"
  /\ LET target == repoNameOf(req[s].repoUrl)
     IN IF repos[target].origin = ""
        THEN /\ repos' = [repos EXCEPT ![target].clones = @ + 1]
             /\ pc' = [pc EXCEPT ![s] = "cloning"]
        ELSE /\ pc' = [pc EXCEPT ![s] = "pulling"]
             /\ UNCHANGED repos
  /\ UNCHANGED <<fs, apiKey, req, pythonPrompts, secretFindings,
                 promptKeywordHits, modelAnalysis, fileTree, response, log,
                 wFs, walkerCall, now, ipToRecord, calls, serviceReply,
                 reported>>

\* part_003 41 and route.ts 166-174: git clone ends; the target then holds
\* the repository of repoUrl, or the clone failed and the request is
\* answered 400
CloneFinish(s) ==
  /\ pc[s] = "cloning"
  /\ LET target == repoNameOf(req[s].repoUrl)
     IN \E outcome \in {"cloned", "clone_failed"} :
          /\ repos' = [repos EXCEPT ![target].origin =
                         IF outcome = "cloned" THEN req[s].repoUrl ELSE @]
          /\ log' = [log EXCEPT ![s] =
                       Append(@, CloneEntry(outcome, repos'[target].origin))]
          /\ pc' = [pc EXCEPT ![s] = afterCheck(outcome = "cloned", "structural")]
          /\ response' = [response EXCEPT ![s] =
                            IF outcome = "cloned" THEN @
                            ELSE [status |-> 400, ok |-> FALSE]]
  /\ UNCHANGED <<fs, apiKey, req, pythonPrompts, secretFindings,
                 promptKeywordHits, modelAnalysis, fileTree, wFs, walkerCall,
                 now, ipToRecord, calls, serviceReply, reported>>

\* part_003 42-46 and route.ts 166-174: fetch, reset --hard and pull in the
\* target that exists
ClonePull(s) ==
  /\ pc[s] = "pulling"
  /\ LET target == repoNameOf(req[s].repoUrl)
     IN \E outcome \in {"pulled", "pull_failed"} :
          /\ log' = [log EXCEPT ![s] =
                       Append(@, CloneEntry(outcome, repos[target].origin))]
          /\ pc' = [pc EXCEPT ![s] = afterCheck(outcome = "pulled", "structural")]
          /\ response' = [response EXCEPT ![s] =
                            IF outcome = "pulled" THEN @
                            ELSE [status |-> 400, ok |-> FALSE]]
  /\ UNCHANGED <<fs, apiKey, req, pythonPrompts, secretFindings,
                 promptKeywordHits, modelAnalysis, fileTree, walkerVars>>

\* one step of the request s
GateStep(s) ==
  \/ Authenticate(s)
  \/ RateLimit(s)
  \/ ParseBody(s)
  \/ CloneStart(s)
  \/ CloneFinish(s)
  \/ ClonePull(s)
  \/ ScanStep(s)

FourCalls ==
  [k \in 1..4 |-> [ip |-> "ip1", at |-> 0, ok |-> TRUE, retryAfterSeconds |-> 0]]

\* one request arrives; ip1 may have used up its window, and the checkout
\* of alice/app may already be there
GateInit ==
  /\ fs \in FixtureInputs
  /\ apiKey = TRUE
  /\ pc = [s \in Scans |-> "auth"]
  /\ req = [s \in Scans |-> NoRequest]
  /\ pythonPrompts = [s \in Scans |-> <<>>]
  /\ secretFindings = [s \in Scans |-> <<>>]
  /\ promptKeywordHits = [s \in Scans |-> <<>>]
  /\ modelAnalysis = [s \in Scans |-> NullAnalysis]
  /\ fileTree = [s \in Scans |-> NoTree]
  /\ response = [s \in Scans |-> NoResponse]
  /\ log = [s \in Scans |-> <<>>]
  /\ now = 0
  /\ \/ ipToRecord = [ip \in Ips |-> NoRecord] /\ calls = <<>>
     \/ /\ ipToRecord = [ip \in Ips |->
                           IF ip = "ip1"
                           THEN [count |-> RATE_LIMIT_MAX,
                                 resetAtMs |-> RATE_LIMIT_WINDOW_MS]
                           ELSE NoRecord]
        /\ calls = FourCalls
  /\ repos \in {[name \in RepoNames |-> NoCheckout],
                [name \in RepoNames |->
                   IF name = "app" THEN [origin |-> U_aliceApp, clones |-> 1]
                   ELSE NoCheckout]}
  /\ ReplyIdle /\ ReportedIdle
  /\ WalkerIdle

GateNext == GateStep(1)
SpecGate == GateInit /\ [][GateNext]_vars

\* the stages that materialize or scan the target
ScanningStages ==
  {"clone", "structural", "filePass", "narrativeTree", "narrative",
   "displayTree"}

\* C24: a request answered 401 (JWT), 429 (rate limit), 400 for its body or
\* 400 for its directory has started no clone or pull, no structural
\* extraction, no file pass, no tree build and no narrative.
C24_RejectedBeforeScanning ==
  \A s \in Scans :
    (\/ response[s].status \in {401, 429}
     \/ /\ response[s].status = 400
        /\ req[s].localPath \in {"none", "file", "missing"})
      => /\ \A stage \in ScanningStages : ~StageRun(s, stage)
         /\ pc[s] = "done"

C24_Witness ==
  /\ response[1].status = 429
  /\ Len(calls) = 5
  /\ log[1] = <<>>

\* ------------------------------------------------------------------------
\* Two requests that have passed the JWT check and the rate limit, each
\* naming a repository or a local path, served concurrently.
\* ------------------------------------------------------------------------
CloneInit ==
  /\ fs = EmptyDir
  /\ apiKey = TRUE
  /\ pc = [s \in Scans |-> "parseBody"]
  /\ req = [s \in Scans |-> NoRequest]
  /\ pythonPrompts = [s \in Scans |-> <<>>]
  /\ secretFindings = [s \in Scans |-> <<>>]
  /\ promptKeywordHits = [s \in Scans |-> <<>>]
  /\ modelAnalysis = [s \in Scans |-> NullAnalysis]
  /\ fileTree = [s \in Scans |-> NoTree]
  /\ response = [s \in Scans |-> NoResponse]
  /\ log = [s \in Scans |-> <<>>]
  /\ OuterIdle
  /\ WalkerIdle

CloneNext ==
  \E s \in Scans :
    \/ ParseBody(s)
    \/ CloneStart(s)
    \/ CloneFinish(s)
    \/ ClonePull(s)
    \/ ScanStep(s)
SpecClone == CloneInit /\ [][CloneNext]_vars

\* the repository a URL names: its owner and its name without ".git"
repoOf(url) == <<url[2], stripGit(url[3])>>

\* C29: the directory a repoUrl request scans holds the repository that its
\* repoUrl names, whatever requests came before.
C29_ScansRequestedRepository ==
  \A s \in Scans : \A k \in 1..Len(log[s]) :
    (log[s][k].stage = "clone" /\ log[s][k].outcome \in {"cloned", "pulled"})
      => repoOf(log[s][k].origin) = repoOf(req[s].repoUrl)

\* the request s has launched a clone
startedClone(s) ==
  \/ pc[s] = "cloning"
  \/ \E k \in 1..Len(log[s]) :
       log[s][k].stage = "clone" /\ log[s][k].outcome \in {"cloned", "clone_failed"}

\* C30: of two concurrent requests naming the same repository that is not
\* cloned yet, at most one starts a clone into the target directory.
C30_AtMostOneClone ==
  \A s, t \in Scans :
    (/\ s # t
     /\ req[s].localPath = "checkout" /\ req[t].localPath = "checkout"
     /\ req[s].repoUrl = req[t].repoUrl)
      => ~(startedClone(s) /\ startedClone(t))


\* ------------------------------------------------------------------------
\* The line heuristics applied again and again to the lines of a pool; the
\* labels reported so far are kept.
\* ------------------------------------------------------------------------
MaxJoined == 2

\* lexemes that make the predicate of a label hold
LabelWords(label) ==
  CASE label = "role_system" -> <<"role", "system">>
    [] label = "system_prompt_identifier" -> <<"system_prompt">>
    [] label = "system_message_identifier" -> <<"systemMessage">>
    [] label = "messages_role_system_inline" -> <<"messages", "role", "system">>
    [] label = "system_directive_you_are" -> <<"You", "are", "assistant">>
    [] label = "generic_prompt_with_system" -> <<"prompt", "system">>
    [] label = "common_identifier_variants" -> <<"systemSpec">>

LabelSet == {keywordLabels[k] : k \in 1..Len(keywordLabels)}

\* the lines that join the words of exactly n labels, in a fixed order
RECURSIVE LinesJoining(_)
LinesJoining(n) ==
  IF n = 0 THEN <<<<>>>>
  ELSE LET rest == LinesJoining(n - 1)
           labels == Len(keywordLabels)
       IN [i \in 1..(labels * Len(rest)) |->
             LabelWords(keywordLabels[((i - 1) % labels) + 1])
               \o rest[((i - 1) \div labels) + 1]]

\* the lines that join the words of up to n labels
RECURSIVE LinesUpTo(_)
LinesUpTo(n) ==
  IF n = 0 THEN LinesJoining(0) ELSE LinesUpTo(n - 1) \o LinesJoining(n)
LabelLinePool == LinesUpTo(MaxJoined)

\* the sweep starts at any line of the pool; walkerCall.budget is the line
\* scanned next
LabelsInit ==
  /\ wFs = EmptyDir
  /\ \E start \in 1..Len(LabelLinePool) :
       walkerCall = [NoCall EXCEPT !.budget = start]
  /\ fs = EmptyDir
  /\ apiKey = TRUE
  /\ ScanIdle

\* scanTextForPromptKeywords on the next line of the pool, as a one-line text
ScanNextLine ==
  /\ LET line == LabelLinePool[walkerCall.budget]
         hits == scanTextForPromptKeywords(<<line>>, scanPath)
     IN /\ wFs' = TextFile(<<line>>)
        /\ walkerCall' =
             [walkerCall EXCEPT
                !.op = "scanTextForPromptKeywords",
                !.budget = (walkerCall.budget % Len(LabelLinePool)) + 1]
        /\ promptKeywordHits' = [promptKeywordHits EXCEPT ![1] = hits]
        /\ reported' = reported \cup {hits[k].matchLabel : k \in 1..Len(hits)}
  /\ UNCHANGED <<fs, apiKey, pc, req, pythonPrompts, secretFindings,
                 modelAnalysis, fileTree, response, log, now, ipToRecord,
                 calls, repos, serviceReply>>

\* the sweep goes round the pool for ever
SpecLabels ==
  /\ LabelsInit
  /\ [][ScanNextLine]_vars
  /\ WF_vars(ScanNextLine)

\* C26: every label of the predicate table is reported for some line,
\* messages_role_system_inline included: once every line has been scanned,
\* every label has been reported.
C26_EveryLabelReported == <>(LabelSet \subseteq reported)

====
